---- MODULE Spec2Model ----
(***************************************************************************)
(* searchy: natural-language phrase -> guarded, bounded, read-only SQL.    *)
(*                                                                         *)
(* SQL text is a TLA+ string; a character is a string of length one.      *)
(* The regular expressions of src/guards/sqlGuard.ts are evaluated         *)
(* position by position, as the JavaScript engine does.                    *)
(***************************************************************************)
EXTENDS Integers, Sequences, FiniteSets, TLC

(***************************************************************************)
(* Characters and the JavaScript string / RegExp primitives the guard uses *)
(***************************************************************************)

UpperAlpha == "ABCDEFGHIJKLMNOPQRSTUVWXYZ"

LowerAlpha == "abcdefghijklmnopqrstuvwxyz"

DigitChars == "0123456789"

Min(a, b) == IF a <= b THEN a ELSE b

\* The set of characters of a string.
Chars(str) == { SubSeq(str, i, i) : i \in 1..Len(str) }

\* \w of a RegExp without the u flag: [A-Za-z0-9_].
WordChars == Chars(UpperAlpha) \cup Chars(LowerAlpha) \cup Chars(DigitChars) \cup {"_"}

\* \s of a RegExp, which is also what String.prototype.trim strips.
WhiteSpace == {" ", "\t", "\n", "\r"}

\* \d of a RegExp.
Digits == Chars(DigitChars)

\* s[i]; the empty string outside the string, which is in no character class.
At(s, i) == IF i \in 1..Len(s) THEN SubSeq(s, i, i) ELSE ""

\* The lower-case letter of every upper-case letter.
LowerOf ==
  [ c \in Chars(UpperAlpha) |->
      LET i == CHOOSE j \in 1..Len(UpperAlpha) : SubSeq(UpperAlpha, j, j) = c
      IN  SubSeq(LowerAlpha, i, i) ]

\* Case folding of one character, as the i flag compares characters.
LowerChar(c) == IF c \in DOMAIN LowerOf THEN LowerOf[c] ELSE c

RECURSIVE toLowerCase(_)
toLowerCase(s) ==
  IF s = "" THEN "" ELSE LowerChar(SubSeq(s, 1, 1)) \o toLowerCase(Tail(s))

\* The literal lit matches at position i of ls.  Under the i flag ls is the
\* text folded to lower case and lit is written in lower case.
MatchesAt(ls, i, lit) ==
  /\ i >= 1
  /\ i + Len(lit) - 1 <= Len(ls)
  /\ SubSeq(ls, i, i + Len(lit) - 1) = lit

\* The assertion \b between positions i-1 and i.
WordBoundary(s, i) == (At(s, i - 1) \in WordChars) # (At(s, i) \in WordChars)

\* The position reached from i by \s* (greedy; what follows it in every
\* pattern of the guard is no white space, so no backtracking changes it).
RECURSIVE SkipSpaces(_, _)
SkipSpaces(s, i) == IF At(s, i) \in WhiteSpace THEN SkipSpaces(s, i + 1) ELSE i

\* The position reached from i by \d+ (i itself when no digit is there).
RECURSIVE SkipDigits(_, _)
SkipDigits(s, i) == IF At(s, i) \in Digits THEN SkipDigits(s, i + 1) ELSE i

RECURSIVE trimStart(_)
trimStart(s) ==
  IF s # "" /\ SubSeq(s, 1, 1) \in WhiteSpace THEN trimStart(Tail(s)) ELSE s

RECURSIVE trimEnd(_)
trimEnd(s) ==
  IF s # "" /\ SubSeq(s, Len(s), Len(s)) \in WhiteSpace
    THEN trimEnd(SubSeq(s, 1, Len(s) - 1))
    ELSE s

\* String.prototype.trim
trim(s) == trimEnd(trimStart(s))

\* String.prototype.includes
includes(s, sub) ==
  \E i \in 1..(Len(s) - Len(sub) + 1) : SubSeq(s, i, i + Len(sub) - 1) = sub

\* The value of one decimal digit.
DigitValue(c) == (CHOOSE i \in 1..Len(DigitChars) : SubSeq(DigitChars, i, i) = c) - 1

\* parseInt(digits, 10) of a non-empty run of decimal digits.
RECURSIVE parseInt(_)
parseInt(ds) ==
  IF Len(ds) = 1 THEN DigitValue(ds)
  ELSE 10 * parseInt(SubSeq(ds, 1, Len(ds) - 1)) + DigitValue(SubSeq(ds, Len(ds), Len(ds)))

\* `${n}` of a non-negative integer.
RECURSIVE numberToString(_)
numberToString(n) ==
  IF n < 10 THEN SubSeq(DigitChars, n + 1, n + 1)
  ELSE numberToString(n \div 10) \o SubSeq(DigitChars, (n % 10) + 1, (n % 10) + 1)

(***************************************************************************)
(* src/guards/sqlGuard.ts                                                  *)
(***************************************************************************)

\* The alternatives of the BANNED pattern, in lower case (the i flag).
BannedWords ==
  { "insert", "update", "delete", "alter", "drop", "create",
    "truncate", "copy", "grant", "revoke", "vacuum", "analyze" }

\* The alternatives of the system-schema pattern of isSafeSelect.
SystemSchemaWords == { "pg_catalog", "information_schema" }

\* The upper-case letter of every lower-case letter.
UpperOf ==
  [ c \in Chars(LowerAlpha) |->
      LET i == CHOOSE j \in 1..Len(LowerAlpha) : SubSeq(LowerAlpha, j, j) = c
      IN  SubSeq(UpperAlpha, i, i) ]

UpperChar(c) == IF c \in DOMAIN UpperOf THEN UpperOf[c] ELSE c

RECURSIVE toUpperCase(_)
toUpperCase(s) ==
  IF s = "" THEN "" ELSE UpperChar(SubSeq(s, 1, 1)) \o toUpperCase(Tail(s))

\* Mutant: the pattern without its i flag, /\b(INSERT|...|ANALYZE)\b/.
BANNED_CaseSensitive(s) ==
  \E i \in 1..Len(s), w \in BannedWords :
    WordBoundary(s, i) /\ MatchesAt(s, i, toUpperCase(w)) /\ WordBoundary(s, i + Len(w))

\* BANNED.test(s): /\b(INSERT|...|ANALYZE)\b/i
BANNED(s) ==
  LET ls == toLowerCase(s) IN
    \E i \in 1..Len(s), w \in BannedWords :
      WordBoundary(s, i) /\ MatchesAt(ls, i, w) /\ WordBoundary(s, i + Len(w))

\* Mutant: the pattern without WITH, /^(SELECT)\b/i.
StartsWithSelectOrWith_SelectOnly(s) ==
  MatchesAt(toLowerCase(s), 1, "select") /\ WordBoundary(s, 7)

\* /^(SELECT|WITH)\b/i.test(s)
StartsWithSelectOrWith(s) ==
  LET ls == toLowerCase(s) IN
    \E w \in {"select", "with"} : MatchesAt(ls, 1, w) /\ WordBoundary(s, Len(w) + 1)

\* Mutant: the pattern without information_schema, /\b(pg_catalog)\./i.
ReferencesSystemSchema_CatalogOnly(s) ==
  LET ls == toLowerCase(s) IN
    \E i \in 1..Len(s) :
      WordBoundary(s, i) /\ MatchesAt(ls, i, "pg_catalog") /\ At(s, i + 10) = "."

\* /\b(pg_catalog|information_schema)\./i.test(s)
ReferencesSystemSchema(s) ==
  LET ls == toLowerCase(s) IN
    \E i \in 1..Len(s), w \in SystemSchemaWords :
      WordBoundary(s, i) /\ MatchesAt(ls, i, w) /\ At(s, i + Len(w)) = "."

\* Mutant: isSafeSelect without its semicolon check.
isSafeSelect_NoSemicolonCheck(sql) ==
  LET s == trim(sql) IN
    IF ~StartsWithSelectOrWith(s) THEN FALSE
    ELSE IF BANNED(s) THEN FALSE
    ELSE IF ReferencesSystemSchema(s) THEN FALSE
    ELSE TRUE

isSafeSelect(sql) ==
  LET s == trim(sql) IN
    IF ~StartsWithSelectOrWith(s) THEN FALSE
    ELSE IF includes(s, ";") THEN FALSE
    ELSE IF BANNED(s) THEN FALSE
    ELSE IF ReferencesSystemSchema(s) THEN FALSE
    ELSE TRUE

\* /\blimit\b/i.test(s)
\* Mutant: the keyword is looked for in lower case only.
HasLimitWord_CaseSensitive(s) ==
  \E i \in 1..Len(s) :
    WordBoundary(s, i) /\ MatchesAt(s, i, "limit") /\ WordBoundary(s, i + 5)

HasLimitWord(s) ==
  LET ls == toLowerCase(s) IN
    \E i \in 1..Len(s) :
      WordBoundary(s, i) /\ MatchesAt(ls, i, "limit") /\ WordBoundary(s, i + 5)

\* Mutant: the clause is appended to the untrimmed text.
ensureLimit_NoTrim(sql, max) ==
  IF HasLimitWord(trim(sql)) THEN trim(sql) ELSE sql \o " LIMIT " \o numberToString(max)

ensureLimit(sql, max) ==
  LET s == trim(sql) IN
    IF HasLimitWord(s) THEN s ELSE s \o " LIMIT " \o numberToString(max)

\* Mutant: the clause is looked for with single blanks and nothing else
\* between its tokens.
hasRandomOrder_SingleBlanks(sql) == includes(toLowerCase(sql), "order by random()")

\* /order\s+by\s+random\s*\(\s*\)/i.test(sql)
hasRandomOrder(sql) ==
  LET ls == toLowerCase(sql) IN
    \E i \in 1..Len(sql) :
      /\ MatchesAt(ls, i, "order")
      /\ LET j == SkipSpaces(sql, i + 5) IN
           /\ j > i + 5
           /\ MatchesAt(ls, j, "by")
           /\ LET k == SkipSpaces(sql, j + 2) IN
                /\ k > j + 2
                /\ MatchesAt(ls, k, "random")
                /\ LET m == SkipSpaces(sql, k + 6) IN
                     /\ At(sql, m) = "("
                     /\ At(sql, SkipSpaces(sql, m + 1)) = ")"

\* A match of /\blimit\s+(\d+)/i starts at position i.
LimitMatchAt(sql, i) ==
  /\ WordBoundary(sql, i)
  /\ MatchesAt(toLowerCase(SubSeq(sql, i, Min(Len(sql), i + 4))), 1, "limit")
  /\ SkipSpaces(sql, i + 5) > i + 5
  /\ At(sql, SkipSpaces(sql, i + 5)) \in Digits

\* The capture group of the match that starts at i, parsed.
LimitCaptureAt(sql, i) ==
  LET d == SkipSpaces(sql, i + 5) IN parseInt(SubSeq(sql, d, SkipDigits(sql, d) - 1))

\* number | undefined: the set holding the number, or the empty set.
limitValue(sql) ==
  LET starts == { i \in 1..Len(sql) : LimitMatchAt(sql, i) } IN
    IF starts = {} THEN {}
    ELSE { LimitCaptureAt(sql, CHOOSE i \in starts : \A j \in starts : i <= j) }

(***************************************************************************)
(* src/schema/rag.ts                                                       *)
(*                                                                         *)
(* A card is a record: name, columns (the column names, in order),         *)
(* join_hints, and row_estimate as the set holding the estimate, empty     *)
(* when the card has none.  A score is counted in quarters, which is exact *)
(* for the estimates of the cards below: their bias 1 / log10(e + 10) is a *)
(* half or a quarter.                                                      *)
(***************************************************************************)

Max(a, b) == IF a >= b THEN a ELSE b

\* The characters /[^a-z0-9_\s.]/g leaves in place and /\s+/ does not split at.
TokenChars == Chars(LowerAlpha) \cup Digits \cup { "_", "." }

\* The maximal runs of token characters of ls from position i on, cur being
\* the run that ends before i.
RECURSIVE TokensFrom(_, _, _)
TokensFrom(ls, i, cur) ==
  IF i > Len(ls) THEN (IF cur = "" THEN << >> ELSE << cur >>)
  ELSE IF At(ls, i) \in TokenChars THEN TokensFrom(ls, i + 1, cur \o At(ls, i))
  ELSE (IF cur = "" THEN << >> ELSE << cur >>) \o TokensFrom(ls, i + 1, "")

tokenize(s) == TokensFrom(toLowerCase(s), 1, "")

\* Array.prototype.join
RECURSIVE join(_, _)
join(parts, sep) ==
  IF parts = << >> THEN ""
  ELSE IF Len(parts) = 1 THEN parts[1]
  ELSE parts[1] \o sep \o join(Tail(parts), sep)

\* [c.name, ...column names, ...c.join_hints].join(" ").toLowerCase()
hayOf(c) == toLowerCase(join(<< c.name >> \o c.columns \o c.join_hints, " "))

\* hay.match(/\bt\b/g).length: the matches of the token as a whole word from
\* position i on, each search beginning where the last match ended.  A token
\* holds no character of a pattern but the dot, which is escaped.
RECURSIVE MatchCount(_, _, _)
MatchCount(hay, tok, i) ==
  IF i + Len(tok) - 1 > Len(hay) THEN 0
  ELSE IF /\ WordBoundary(hay, i)
          /\ MatchesAt(hay, i, tok)
          /\ WordBoundary(hay, i + Len(tok))
    THEN 1 + MatchCount(hay, tok, i + Len(tok))
    ELSE MatchCount(hay, tok, i + 1)

\* Math.log10 at the arguments that occur.
Log10 == (100 :> 2) @@ (10000 :> 4)

\* Mutant: the relation name earns no bonus.
TokenScore_NoBonus(c, hay, tok) ==
  IF tok = "" THEN 0 ELSE 4 * MatchCount(hay, tok, 1)

\* What one token adds to the score of a card, in quarters.
TokenScore(c, hay, tok) ==
  IF tok = "" THEN 0
  ELSE 4 * MatchCount(hay, tok, 1) + (IF includes(c.name, tok) THEN 2 ELSE 0)

RECURSIVE TokensScore(_, _, _)
TokensScore(c, hay, qTokens) ==
  IF qTokens = << >> THEN 0
  ELSE TokenScore(c, hay, Head(qTokens)) + TokensScore(c, hay, Tail(qTokens))

\* The score of a card for the tokens of a phrase, in quarters.
score(c, qTokens) ==
  TokensScore(c, hayOf(c), qTokens)
    + (IF c.row_estimate # {}
         THEN 4 \div Log10[(CHOOSE e \in c.row_estimate : TRUE) + 10]
         ELSE 0)

\* The characters of relation names in the order of the root collation.
CollationOrder == "_.0123456789abcdefghijklmnopqrstuvwxyz"

CollationRank(ch) ==
  CHOOSE i \in 1..Len(CollationOrder) : SubSeq(CollationOrder, i, i) = ch

\* String.prototype.localeCompare on names of lower-case letters, digits,
\* underscores and dots.
RECURSIVE localeCompare(_, _)
localeCompare(a, b) ==
  IF a = "" /\ b = "" THEN 0
  ELSE IF a = "" THEN -1
  ELSE IF b = "" THEN 1
  ELSE IF SubSeq(a, 1, 1) = SubSeq(b, 1, 1) THEN localeCompare(Tail(a), Tail(b))
  ELSE IF CollationRank(SubSeq(a, 1, 1)) < CollationRank(SubSeq(b, 1, 1)) THEN -1
  ELSE 1

\* Mutant: cards of equal score are not compared by name.
compare_ScoreOnly(a, b) == b.score - a.score

\* (a, b) => b.score - a.score || a.c.name.localeCompare(b.c.name)
compare(a, b) ==
  IF b.score - a.score # 0 THEN b.score - a.score
  ELSE localeCompare(a.c.name, b.c.name)

\* x put into the sorted s behind every element that does not come after it.
RECURSIVE Insert(_, _)
Insert(x, s) ==
  IF s = << >> THEN << x >>
  ELSE IF compare(Head(s), x) <= 0 THEN << Head(s) >> \o Insert(x, Tail(s))
  ELSE << x >> \o s

\* Array.prototype.sort, which is stable.
RECURSIVE sort(_)
sort(s) ==
  IF s = << >> THEN << >>
  ELSE Insert(s[Len(s)], sort(SubSeq(s, 1, Len(s) - 1)))

\* Array.prototype.slice(0, end)
slice(s, end) ==
  IF end < 0 THEN SubSeq(s, 1, Max(Len(s) + end, 0)) ELSE SubSeq(s, 1, Min(end, Len(s)))

\* The default of the parameter k.
DefaultK == 6

\* Mutant: k is taken as it is.
TopCount_NoFloor(k) == k

\* Math.max(1, k)
TopCount(k) == Max(1, k)

\* The relations of a database: names, columns, join hints and row estimates.
CardPool ==
  { [ name |-> "public.accounts", columns |-> << "id", "owner" >>,
      join_hints |-> << >>, row_estimate |-> {} ],
    [ name |-> "public.audit", columns |-> << "id", "orders" >>,
      join_hints |-> << >>, row_estimate |-> { 9990 } ],
    [ name |-> "public.customers", columns |-> << "id", "name" >>,
      join_hints |-> << >>, row_estimate |-> { 90 } ],
    [ name |-> "public.order_items", columns |-> << "id", "order_id" >>,
      join_hints |-> << "public.order_items.order_id -> public.orders.id" >>,
      row_estimate |-> {} ],
    [ name |-> "public.orders", columns |-> << "id", "customer_id", "status" >>,
      join_hints |-> << "public.orders.customer_id -> public.customers.id" >>,
      row_estimate |-> { 90 } ],
    [ name |-> "public.payments", columns |-> << "id", "order_id", "paid" >>,
      join_hints |-> << "public.payments.order_id -> public.orders.id" >>,
      row_estimate |-> { 9990 } ],
    [ name |-> "public.zones", columns |-> << "id" >>,
      join_hints |-> << >>, row_estimate |-> {} ] }

\* The phrases of the requests.
Phrases == { "", "Paid ORDERS, by customers!", "orders id", "zone name" }

\* score(c, tokenize(phrase)), evaluated once for every card and phrase.
CardScore ==
  [ c \in CardPool |-> [ phrase \in Phrases |-> score(c, tokenize(phrase)) ] ]

\* pickTopK(cards, phrase, k), kArg being the set that holds k when it is given.
pickTopK(cards, phrase, kArg) ==
  LET k      == IF kArg = {} THEN DefaultK ELSE CHOOSE x \in kArg : TRUE
      scores == [ i \in 1..Len(cards) |->
                    [ c |-> cards[i], score |-> CardScore[cards[i]][phrase] ] ]
      top    == slice(sort(scores), TopCount(k))
  IN  [ i \in 1..Len(top) |-> top[i].c ]

(***************************************************************************)
(* The /query handler of src/server.ts, one request per slot.  An action   *)
(* is the code between two awaits.                                         *)
(***************************************************************************)

VARIABLES
  MAX_LIMIT,    \* config: the configured maximum LIMIT
  cardsCache,   \* the connection strings that have an entry in cardsCache
  pc,           \* per request: the await the handler is suspended at
  body,         \* per request: req.body
  content,      \* per request: the message content the generator answered with
  rawSql,       \* per request: the SQL text the generator returned
  limitedSql,   \* per request: ensureLimit's result
  steps,        \* per request: the pipeline steps begun and completed, in order
  executed,     \* per request: the statements passed to adapter.runSelect
  response,     \* per request: what was sent to the client
  gSql,         \* a guard function applied alone: its argument sql
  gMax,         \* a guard function applied alone: its argument max
  gFn,          \* a guard function applied alone: the function applied
  gOut,         \* a guard function applied alone: the set holding its result
  pCards,       \* pickTopK applied alone: its argument cards
  pPhrase,      \* pickTopK applied alone: its argument phrase
  pK,           \* pickTopK applied alone: the set holding its argument k, if given
  pOut,         \* pickTopK applied alone: the set holding its result
  now,          \* card cache: what Date.now() returned last
  cacheEntry,   \* card cache: per connection string, the set holding its entry
  cardSeqs,     \* card cache: the card arrays built so far, by identity
  cPc,          \* card cache, per request: the await the handler is suspended at
  cDb,          \* card cache, per request: dbUrl
  cNow,         \* card cache, per request: the handler's constant now
  found,        \* card cache, per request: what cardsCache.get(dbUrl) returned
  entry,        \* card cache, per request: the handler's variable entry
  results,      \* card cache, per request: the state of the calls of Promise.all
  calls,        \* card cache, per request: the introspection calls made, in order
  entryBefore,  \* card cache, per request: its entry before the handler's last step
  entryAfter,   \* card cache, per request: its entry after the handler's last step
  CACHE_POOL_SIZE, \* config: the capacity of poolCache
  poolCache,    \* pool registry: the entries of the LRU's map, in insertion order
  pools,        \* pool registry: how many pools have been created
  poolLog,      \* pool registry: the arguments of the getPool calls, in order
  prevCache,    \* pool registry: poolCache before the last getPool call
  returned,     \* pool registry: the pool the last getPool call returned
  ended,        \* pool registry: the pools whose end() has been called
  timeoutMs,    \* adapter, per instance: its field timeoutMs
  wPc,          \* adapter, per instance: the await withClient is suspended at
  client,       \* adapter, per instance: the connection withClient holds, 0 if none
  setTo,        \* adapter, per instance: the constant timeout of withClient
  wResult,      \* adapter, per instance: what runSelect returns or has returned
  statementTimeout, \* per connection: the set holding its statement_timeout, empty for DEFAULT
  declared,     \* adapter, per instance: the value declared on it last
  declaredAtRead, \* adapter, per instance: declared when withClient read timeoutMs
  acquired,     \* adapter, per instance: pool.connect() calls of its last call that resolved
  released,     \* adapter, per instance: client.release() calls of its last call
  MAX_RESPONSE_BYTES, \* config: the byte budget of a response
  sPc,          \* size cap: where the /query handler is
  fetched,      \* size cap: exec.rows, each row as its JSON text
  rows,         \* size cap: the handler's variable rows
  rowCount,     \* size cap: the handler's variable rowCount
  truncated,    \* size cap: the handler's variable truncated
  approxBytes,  \* size cap: the handler's variable approxBytes
  nRows,        \* size cap: the handler's variable n
  sent,         \* size cap: the set holding the response passed to res.json
  xPc,          \* /explain, per request: the await the handler is suspended at
  xBody,        \* /explain, per request: req.body
  xCalls,       \* /explain, per request: the adapter methods called, in order
  xContent,     \* /explain, per request: the message content of the generator's answer
  xResponse     \* /explain, per request: the response sent

vars ==
  << MAX_LIMIT, cardsCache, pc, body, content, rawSql, limitedSql, steps,
     executed, response, gSql, gMax, gFn, gOut, pCards, pPhrase, pK, pOut,
     now, cacheEntry, cardSeqs, cPc, cDb, cNow, found, entry, results,
     calls, entryBefore, entryAfter,
     CACHE_POOL_SIZE, poolCache, pools, poolLog, prevCache, returned, ended,
     timeoutMs, wPc, client, setTo, wResult, statementTimeout, declared,
     declaredAtRead, acquired, released,
     MAX_RESPONSE_BYTES, sPc, fetched, rows, rowCount, truncated, approxBytes,
     nRows, sent, xPc, xBody, xCalls, xContent, xResponse >>

pipelineVars ==
  << MAX_LIMIT, cardsCache, pc, body, content, rawSql, limitedSql, steps, executed,
     response >>

guardVars == << gSql, gMax, gFn, gOut >>

pickVars == << pCards, pPhrase, pK, pOut >>

cacheVars ==
  << now, cacheEntry, cardSeqs, cPc, cDb, cNow, found, entry, results,
     calls, entryBefore, entryAfter >>

poolVars ==
  << CACHE_POOL_SIZE, poolCache, pools, poolLog, prevCache, returned, ended >>

connVars ==
  << timeoutMs, wPc, client, setTo, wResult, statementTimeout, declared,
     declaredAtRead, acquired, released >>

capVars ==
  << MAX_RESPONSE_BYTES, sPc, fetched, rows, rowCount, truncated, approxBytes,
     nRows, sent >>

explainVars == << xPc, xBody, xCalls, xContent, xResponse >>

\* What the /query handler leaves alone: the functions applied on their own,
\* the card cache in detail, the pool registry, the adapters and the size cap
\* in detail.
otherVars == << guardVars, pickVars, cacheVars, poolVars, connVars, capVars, explainVars >>

\* What a guard function applied on its own leaves alone.
guardOthers ==
  << pipelineVars, pickVars, cacheVars, poolVars, connVars, capVars, explainVars >>

\* What pickTopK applied on its own leaves alone.
pickOthers ==
  << pipelineVars, guardVars, cacheVars, poolVars, connVars, capVars, explainVars >>

\* What the steps of the card cache leave alone.
cacheOthers ==
  << pipelineVars, guardVars, pickVars, poolVars, connVars, capVars, explainVars >>

\* What getPool leaves alone.
poolOthers ==
  << pipelineVars, guardVars, pickVars, cacheVars, connVars, capVars, explainVars >>

\* What the size cap leaves alone.
capOthers ==
  << pipelineVars, guardVars, pickVars, cacheVars, poolVars, connVars, explainVars >>

\* What the methods of an adapter leave alone.
connOthers ==
  << pipelineVars, guardVars, pickVars, cacheVars, poolVars, capVars, explainVars >>

\* What the /explain handler leaves alone: all but the card cache of the
\* server, the pool registry and its own requests.
explainOthers ==
  << MAX_LIMIT, pc, body, content, rawSql, limitedSql, steps, executed, response,
     guardVars, pickVars, cacheVars, connVars, capVars >>

\* No guard function is being applied on its own.
GuardIdle == gSql = "" /\ gMax = 0 /\ gFn = "none" /\ gOut = {}

\* The default of CACHE_POOL_SIZE.
DefaultPoolSize == 8

\* The pool registry is empty.
PoolIdle ==
  /\ CACHE_POOL_SIZE = DefaultPoolSize
  /\ poolCache = << >>
  /\ pools = 0
  /\ poolLog = << >>
  /\ prevCache = << >>
  /\ returned = 0
  /\ ended = {}

\* pickTopK is not being applied on its own.
PickIdle == pCards = << >> /\ pPhrase = "" /\ pK = {} /\ pOut = {}

\* The number of request slots.
NumReqs == 2

Requests == 1..NumReqs

\* The connection strings of the requests to the card cache.
DbUrls == { "postgres://db1" }

\* What listRelations returns: the relation names, ordered.
Relations == << "public.customers", "public.orders" >>

\* What listRelationships returns.
Relationships ==
  << [ from |-> "public.orders", column |-> "customer_id",
       to |-> "public.customers", toColumn |-> "id" ] >>

\* The calls buildCards awaits together, in the order it makes them.
PromiseAllCalls ==
  [ i \in 1..Len(Relations) |-> << "describeRelation", Relations[i] >> ]
    \o << << "listRelationships", "" >> >>

SubCalls == { PromiseAllCalls[i] : i \in DOMAIN PromiseAllCalls }

\* No request has reached the card cache, which is empty.
CacheIdle ==
  /\ now = 0
  /\ cacheEntry = [ db \in DbUrls |-> {} ]
  /\ cardSeqs = << >>
  /\ cPc = [ r \in Requests |-> "idle" ]
  /\ cDb = [ r \in Requests |-> "" ]
  /\ cNow = [ r \in Requests |-> 0 ]
  /\ found = [ r \in Requests |-> {} ]
  /\ entry = [ r \in Requests |-> {} ]
  /\ results = [ r \in Requests |-> [ c \in SubCalls |-> "none" ] ]
  /\ calls = [ r \in Requests |-> << >> ]
  /\ entryBefore = [ r \in Requests |-> {} ]
  /\ entryAfter = [ r \in Requests |-> {} ]

\* The adapter instances: getAdapter makes one for each request.
Adapters == Requests

\* POOL_MAX, the connections of the pool the adapters share: configured to 2.
POOL_MAX == 2

Conns == 1..POOL_MAX

\* The default of STATEMENT_TIMEOUT_MS.
STATEMENT_TIMEOUT_MS == 3000

\* Every adapter is as constructed, and every connection is in the pool with
\* the statement_timeout of a new session.
ConnIdle ==
  /\ timeoutMs = [ a \in Adapters |-> STATEMENT_TIMEOUT_MS ]
  /\ wPc = [ a \in Adapters |-> "idle" ]
  /\ client = [ a \in Adapters |-> 0 ]
  /\ setTo = [ a \in Adapters |-> 0 ]
  /\ wResult = [ a \in Adapters |-> "none" ]
  /\ statementTimeout = [ c \in Conns |-> {} ]
  /\ declared = [ a \in Adapters |-> STATEMENT_TIMEOUT_MS ]
  /\ declaredAtRead = [ a \in Adapters |-> 0 ]
  /\ acquired = [ a \in Adapters |-> 0 ]
  /\ released = [ a \in Adapters |-> 0 ]

\* The default of MAX_RESPONSE_BYTES, 5 * 1024 * 1024.
DefaultMaxResponseBytes == 5242880

\* No response is being capped.
CapIdle ==
  /\ MAX_RESPONSE_BYTES = DefaultMaxResponseBytes
  /\ sPc = "idle"
  /\ fetched = << >>
  /\ rows = << >>
  /\ rowCount = 0
  /\ truncated = FALSE
  /\ approxBytes = 0
  /\ nRows = 0
  /\ sent = {}

\* Values MAX_LIMIT is configured to (intFromEnv accepts any integer).
MaxLimitValues == { 10, 1000, 5000 }

\* The default of MAX_LIMIT.
DefaultMaxLimit == 1000

\* The literal cap in ensureLimit(rawSql, Math.min(MAX_LIMIT, 1000)).
LimitCap == 1000

\* PG_URL, the default connection string: not configured.
PG_URL == ""

\* The JavaScript values of the fields of a body: a string, undefined, a
\* number.
Str(s) == [t |-> "string", s |-> s]

Undefined == [t |-> "undefined", s |-> ""]

ANumber == [t |-> "number", s |-> ""]

\* req.body: an object with its fields phrase and dbUrl, or undefined.
Body(phrase, dbUrl) == [t |-> "object", phrase |-> phrase, dbUrl |-> dbUrl]

NoBody == [t |-> "undefined", phrase |-> Undefined, dbUrl |-> Undefined]

\* The longest phrase validateBody accepts.
MaxPhraseLength == 2000

Twice(s) == s \o s

\* A phrase of MaxPhraseLength + 1 characters.
LongPhrase ==
  SubSeq(Twice(Twice(Twice(Twice(Twice(Twice(Twice(Twice(Twice(Twice(Twice("a"))))))))))),
         1, MaxPhraseLength + 1)

\* Request bodies: a valid one, and one for each way validateBody and the
\* handler tell an invalid one: no body, a phrase that is no string, is empty
\* or is too long, a dbUrl that is no string, is missing or is empty.
Bodies ==
  { Body(Str("paid orders"), Str("postgres://db1")),
    NoBody,
    Body(ANumber, Str("postgres://db1")),
    Body(Str(""), Str("postgres://db1")),
    Body(Str(LongPhrase), Str("postgres://db1")),
    Body(Str("paid orders"), ANumber),
    Body(Str("paid orders"), Undefined),
    Body(Str("paid orders"), Str("")) }

\* What the generator may answer: any text.  These are the shapes the
\* handler tells apart.
GenOutputs ==
  { "SELECT * FROM public.orders",
    "  select id from a\n",
    "WITH t AS (SELECT 1) SELECT * FROM t",
    "SELECT * FROM a LIMIT 5",
    "SELECT * FROM a LIMIT 5000",
    "SELECT * FROM a LIMIT ALL",
    "SELECT * FROM (SELECT * FROM a LIMIT 5) s LIMIT 5000",
    "DELETE FROM public.orders",
    "SELECT 1; DROP TABLE a",
    "select * from a order by random()",
    "SELECT * FROM pg_catalog.pg_tables" }

\* The message content of the generator's answer: empty, a text that is no
\* JSON, or the JSON text of an object with its fields sql and params.
Content(t, sql, params) == [t |-> t, sql |-> sql, params |-> params]

NoContent == Content("none", Undefined, "absent")

\* What the generator may answer with: the contents generateSQL tells apart,
\* and an object with each of the SQL texts.
Contents ==
  { Content("empty", Undefined, "absent"),
    Content("notJson", Undefined, "absent"),
    Content("json", Undefined, "absent"),
    Content("json", ANumber, "absent"),
    Content("json", Str(""), "absent"),
    Content("json", Str("SELECT * FROM a LIMIT 5"), "other") }
    \cup { Content("json", Str(s), "array") : s \in GenOutputs }

\* The message of the error of a statement that ran into statement_timeout.
StatementTimeoutError == "canceling statement due to statement timeout"

\* OpenAILLM.generateSQL on the content of an answer: the message of the
\* error it throws, or the sql it returns.
generateSQL(c) ==
  IF c.t = "empty" THEN [error |-> "LLM returned empty content", sql |-> ""]
  ELSE IF c.t # "json" THEN [error |-> "LLM output not valid JSON", sql |-> ""]
  ELSE IF c.sql.t # "string" \/ c.sql.s = "" THEN [error |-> "LLM JSON missing sql", sql |-> ""]
  ELSE IF c.params = "other" THEN [error |-> "LLM JSON params not array", sql |-> ""]
  ELSE [error |-> "", sql |-> c.sql.s]

\* Messages of the errors the database driver rejects with: of pool.connect
\* and SELECT 1, of the catalog queries, of the statement of runSelect.
ConnectErrors == { "connect ECONNREFUSED 10.0.0.5:5432" }

IntrospectionErrors == { "permission denied for table pg_class" }

ExecutionErrors == { "relation \"public.orderz\" does not exist" }

NoResponse == [status |-> 0, sql |-> "", error |-> "", truncated |-> FALSE]

\* The message content of the generator's answer to generateExplanation:
\* empty, a text that is no JSON, or the JSON text of an object with its
\* fields answer, references and, unasked for, sql.
Explanation(t, answer, references, sql) ==
  [t |-> t, answer |-> answer, references |-> references, sql |-> sql]

NoExplanation == Explanation("none", Undefined, "absent", Undefined)

\* What the generator may answer with: the contents generateExplanation tells
\* apart, with answers that are prose and answers that are SQL.
Explanations ==
  { Explanation("empty", Undefined, "absent", Undefined),
    Explanation("notJson", Undefined, "absent", Undefined),
    Explanation("json", Undefined, "absent", Str("DELETE FROM public.orders")),
    Explanation("json", Str("The relation public.orders (table) has columns: id (pk)."),
                "array", Undefined),
    Explanation("json", Str("SELECT * FROM public.orders"), "absent",
                Str("SELECT * FROM public.orders")),
    Explanation("json", Str("DROP TABLE public.orders"), "other", Undefined) }

\* OpenAILLM.generateExplanation on the content of an answer: the message of
\* the error it throws, or the answer it returns.
generateExplanation(c) ==
  IF c.t = "empty" THEN [error |-> "LLM returned empty content", answer |-> ""]
  ELSE IF c.t # "json" THEN [error |-> "LLM output not valid JSON", answer |-> ""]
  ELSE IF c.answer.t # "string" \/ c.answer.s = ""
    THEN [error |-> "LLM JSON missing answer", answer |-> ""]
  ELSE IF c.references = "other"
    THEN [error |-> "LLM JSON references not array", answer |-> ""]
  ELSE [error |-> "", answer |-> c.answer.s]

\* A call of a method of the adapter, with the statement it is given.
AdapterCall(method, sql) == [method |-> method, sql |-> sql]

\* The statements of the methods of the adapter, by their FROM clause.
listRelationsSql == "SELECT ... FROM pg_class c JOIN pg_namespace n ..."

columnsSql == "SELECT ... FROM pg_attribute a JOIN pg_class c ... JOIN pg_namespace n ..."

rowEstimateSql == "SELECT c.reltuples ... FROM pg_class c JOIN pg_namespace n ..."

listRelationshipsSql == "SELECT ... FROM pg_constraint con JOIN pg_class cf ..."

\* The statements a call of a method of the adapter sends to the database.
StatementsOf(call) ==
  CASE call.method = "testConnection" -> << "SELECT 1" >>
    [] call.method = "listRelations" -> << listRelationsSql >>
    [] call.method = "describeRelation" -> << columnsSql, rowEstimateSql >>
    [] call.method = "listRelationships" -> << listRelationshipsSql >>
    [] call.method = "runSelect" ->
         << "SET statement_timeout TO ...", call.sql, "SET statement_timeout TO DEFAULT" >>
    [] OTHER -> << >>

\* The response of /explain before res.json is called.
NoExplainResponse == [status |-> 0, answer |-> "", error |-> ""]

\* No /explain request has arrived.
ExplainIdle ==
  /\ xPc = [r \in Requests |-> "idle"]
  /\ xBody = [r \in Requests |-> NoBody]
  /\ xCalls = [r \in Requests |-> << >>]
  /\ xContent = [r \in Requests |-> NoExplanation]
  /\ xResponse = [r \in Requests |-> NoExplainResponse]

\* req.body.dbUrl || PG_URL
dbUrlOf(b) == IF b.dbUrl.t = "string" /\ b.dbUrl.s # "" THEN b.dbUrl.s ELSE PG_URL

\* Mutant: the length of the phrase is not checked.
validateBody_NoLengthCheck(b) ==
  IF b.t # "object" THEN "Invalid body"
  ELSE IF b.phrase.t # "string" THEN "Invalid phrase"
  ELSE IF b.dbUrl.t # "undefined" /\ b.dbUrl.t # "string" THEN "Invalid dbUrl"
  ELSE IF dbUrlOf(b) = "" THEN "Missing dbUrl"
  ELSE ""

\* validateBody and the dbUrl default of the handler: the error thrown, or "".
validateBody(b) ==
  IF b.t # "object" THEN "Invalid body"
  ELSE IF b.phrase.t # "string" \/ Len(b.phrase.s) < 1 \/ Len(b.phrase.s) > MaxPhraseLength
    THEN "Invalid phrase"
  ELSE IF b.dbUrl.t # "undefined" /\ b.dbUrl.t # "string" THEN "Invalid dbUrl"
  ELSE IF dbUrlOf(b) = "" THEN "Missing dbUrl"
  ELSE ""

\* Mutant: the handler without its isSafeSelect check.
GuardChecks_NoSafeSelect(sql, maxLimit) ==
  IF hasRandomOrder(sql)
    THEN [error |-> "ORDER BY random() is not allowed", sql |-> ""]
  ELSE
    LET limited == ensureLimit(sql, Min(maxLimit, LimitCap))
        limit   == limitValue(limited)
    IN  IF limit # {} /\ limit # {0} /\ (\E v \in limit : v > maxLimit)
          THEN [error |-> "LIMIT exceeds MAX_LIMIT", sql |-> ""]
          ELSE [error |-> "", sql |-> limited]

\* The guard of the handler on the generator's SQL: the client error thrown,
\* or the statement to execute.
GuardChecks(sql, maxLimit) ==
  IF ~isSafeSelect(sql)
    THEN [error |-> "Generated SQL rejected by guard", sql |-> ""]
  ELSE IF hasRandomOrder(sql)
    THEN [error |-> "ORDER BY random() is not allowed", sql |-> ""]
  ELSE
    LET limited == ensureLimit(sql, Min(maxLimit, LimitCap))
        limit   == limitValue(limited)
    IN  IF limit # {} /\ limit # {0} /\ (\E v \in limit : v > maxLimit)
          THEN [error |-> "LIMIT exceeds MAX_LIMIT", sql |-> ""]
          ELSE [error |-> "", sql |-> limited]

\* GuardChecks on every generator output under every configuration,
\* evaluated once.
GuardResult == [ s \in GenOutputs, m \in MaxLimitValues |-> GuardChecks(s, m) ]

\* The registry of getPool: the Map of the LRU is the sequence of its entries
\* in insertion order, and a pool is the number of its creation.

\* Map.prototype.has
MapHas(map, k) == \E i \in DOMAIN map : map[i].key = k

\* Map.prototype.get: the set holding the value, empty when there is none.
MapGet(map, k) == { map[i].value : i \in { j \in DOMAIN map : map[j].key = k } }

\* Map.prototype.delete
RECURSIVE MapDelete(_, _)
MapDelete(map, k) ==
  IF map = << >> THEN << >>
  ELSE IF Head(map).key = k THEN Tail(map)
  ELSE << Head(map) >> \o MapDelete(Tail(map), k)

\* Map.prototype.set: a key the map has keeps its place.
MapSet(map, k, v) ==
  IF MapHas(map, k)
    THEN [ i \in DOMAIN map |-> IF map[i].key = k THEN [ key |-> k, value |-> v ] ELSE map[i] ]
    ELSE Append(map, [ key |-> k, value |-> v ])

\* Mutant: get leaves the key where it is.
LRU_get_NoTouch(map, k) == map

\* The map after LRU.get(k), which returns MapGet(map, k).
LRU_get(map, k) ==
  IF MapGet(map, k) # {}
    THEN MapSet(MapDelete(map, k), k, CHOOSE v \in MapGet(map, k) : TRUE)
    ELSE map

\* Mutant: set evicts nothing.
LRU_set_NoEviction(map, k, v, capacity) ==
  MapSet(IF MapHas(map, k) THEN MapDelete(map, k) ELSE map, k, v)

\* The map after LRU.set(k, v).
LRU_set(map, k, v, capacity) ==
  LET set == MapSet(IF MapHas(map, k) THEN MapDelete(map, k) ELSE map, k, v) IN
    IF Len(set) > capacity THEN MapDelete(set, set[1].key) ELSE set

\* getPool(dbUrl): what it does to the registry, and the pool it returns.
getPool(dbUrl) ==
  /\ poolLog' = Append(poolLog, dbUrl)
  /\ prevCache' = poolCache
  /\ LET cached == MapGet(poolCache, dbUrl) IN
       IF cached # {}
         THEN /\ poolCache' = LRU_get(poolCache, dbUrl)
              /\ returned' = CHOOSE v \in cached : TRUE
              /\ UNCHANGED pools
         ELSE /\ pools' = pools + 1
              /\ poolCache' =
                   LRU_set(LRU_get(poolCache, dbUrl), dbUrl, pools + 1, CACHE_POOL_SIZE)
              /\ returned' = pools + 1
  /\ UNCHANGED << CACHE_POOL_SIZE, ended >>

Init ==
  /\ MAX_LIMIT \in MaxLimitValues
  /\ cardsCache = {}
  /\ pc = [r \in Requests |-> "idle"]
  /\ body = [r \in Requests |-> NoBody]
  /\ content = [r \in Requests |-> NoContent]
  /\ rawSql = [r \in Requests |-> ""]
  /\ limitedSql = [r \in Requests |-> ""]
  /\ steps = [r \in Requests |-> << >>]
  /\ executed = [r \in Requests |-> << >>]
  /\ response = [r \in Requests |-> NoResponse]
  /\ GuardIdle
  /\ PickIdle
  /\ CacheIdle
  /\ PoolIdle
  /\ ConnIdle
  /\ CapIdle
  /\ ExplainIdle

\* Mutant: an error of runSelect makes the handler call it again.
Fail_RetriesExecution(r, status, message) ==
  IF pc[r] = "runSelect"
    THEN /\ pc' = [pc EXCEPT ![r] = "setTimeoutMs"]
         /\ UNCHANGED response
    ELSE /\ pc' = [pc EXCEPT ![r] = "done"]
         /\ response' = [response EXCEPT ![r] =
                          [status |-> status, sql |-> "", error |-> message, truncated |-> FALSE]]

\* next(err) and the error handler: the status of the error, 500 without one.
Fail(r, status, message) ==
  /\ pc' = [pc EXCEPT ![r] = "done"]
  /\ response' = [response EXCEPT ![r] =
                     [status |-> status, sql |-> "", error |-> message, truncated |-> FALSE]]

\* Mutant: the generator is called before pickTopK has run.
SelectAndGenerate_GeneratorFirst(r, before) ==
  \/ /\ steps' = [steps EXCEPT ![r] = before \o << "cards", "generateSQL:call", "pickTopK" >>]
     /\ pc' = [pc EXCEPT ![r] = "generateSQL"]
     /\ UNCHANGED response
  \/ /\ steps' = [steps EXCEPT ![r] = before \o << "cards" >>]
     /\ Fail(r, 500, "OPENAI_API_KEY missing")

\* The cards are at hand: pickTopK, getLLM (which throws when no generator is
\* configured), and the call of generateSQL.
SelectAndGenerate(r, before) ==
  \/ /\ steps' = [steps EXCEPT ![r] = before \o << "cards", "pickTopK", "generateSQL:call" >>]
     /\ pc' = [pc EXCEPT ![r] = "generateSQL"]
     /\ UNCHANGED response
  \/ /\ steps' = [steps EXCEPT ![r] = before \o << "cards", "pickTopK" >>]
     /\ Fail(r, 500, "OPENAI_API_KEY missing")

\* validateBody, the dbUrl default, getAdapter, and the call of testConnection.
Receive(r) ==
  /\ pc[r] = "idle"
  /\ \E b \in Bodies :
       /\ body' = [body EXCEPT ![r] = b]
       /\ IF validateBody(b) # ""
            THEN /\ Fail(r, 400, validateBody(b))
                 /\ UNCHANGED poolVars
            ELSE /\ getPool(dbUrlOf(b))
                 /\ pc' = [pc EXCEPT ![r] = "testConnection"]
                 /\ UNCHANGED response
  /\ UNCHANGED << MAX_LIMIT, cardsCache, content, rawSql, limitedSql, steps, executed >>
  /\ UNCHANGED << guardVars, pickVars, cacheVars, connVars, capVars, explainVars >>

\* testConnection settles; on success the cache lookup, and on a hit the
\* steps up to the call of the generator.  Whether an entry has outlived the
\* TTL depends on Date.now(), which the environment supplies: either answer.
TestConnectionDone(r) ==
  /\ pc[r] = "testConnection"
  /\ \/ /\ \E e \in ConnectErrors : Fail(r, 500, e)
        /\ UNCHANGED steps
     \/ \E expired \in BOOLEAN :
          IF dbUrlOf(body[r]) \notin cardsCache \/ expired
            THEN /\ pc' = [pc EXCEPT ![r] = "buildCards"]
                 /\ steps' = [steps EXCEPT ![r] = @ \o << "buildCards:call" >>]
                 /\ UNCHANGED response
            ELSE SelectAndGenerate(r, steps[r])
  /\ UNCHANGED << MAX_LIMIT, cardsCache, body, content, rawSql, limitedSql, executed >>
  /\ UNCHANGED otherVars

\* buildCards settles; on success the entry is stored and the steps up to the
\* call of the generator follow.
BuildCardsDone(r) ==
  /\ pc[r] = "buildCards"
  /\ \/ /\ \E e \in IntrospectionErrors : Fail(r, 500, e)
        /\ UNCHANGED << steps, cardsCache >>
     \/ /\ cardsCache' = cardsCache \cup { dbUrlOf(body[r]) }
        /\ SelectAndGenerate(r, steps[r] \o << "buildCards:return" >>)
  /\ UNCHANGED << MAX_LIMIT, body, content, rawSql, limitedSql, executed >>
  /\ UNCHANGED otherVars

\* generateSQL settles; on success the guard checks, ensureLimit, the limit
\* check and the call of setTimeoutMs.
GenerateSQLDone(r) ==
  /\ pc[r] = "generateSQL"
  /\ \/ /\ Fail(r, 500, "LLM error")
        /\ UNCHANGED << steps, content, rawSql, limitedSql >>
     \/ \E c \in Contents :
          /\ generateSQL(c).error = ""
          /\ content' = [content EXCEPT ![r] = c]
          /\ LET s == generateSQL(c).sql
                 g == GuardResult[s, MAX_LIMIT]
             IN  /\ rawSql' = [rawSql EXCEPT ![r] = s]
                 /\ steps' = [steps EXCEPT ![r] = @ \o << "generateSQL:return", "guard" >>]
                 /\ IF g.error # ""
                      THEN /\ Fail(r, 400, g.error)
                           /\ UNCHANGED limitedSql
                      ELSE /\ limitedSql' = [limitedSql EXCEPT ![r] = g.sql]
                           /\ pc' = [pc EXCEPT ![r] = "setTimeoutMs"]
                           /\ UNCHANGED response
  /\ UNCHANGED << MAX_LIMIT, cardsCache, body, executed >>
  /\ UNCHANGED otherVars

\* generateSQL throws on the content of the answer.
GenerateSQLThrows(r) ==
  /\ pc[r] = "generateSQL"
  /\ \E c \in Contents :
       /\ generateSQL(c).error # ""
       /\ content' = [content EXCEPT ![r] = c]
       /\ Fail(r, 500, generateSQL(c).error)
  /\ UNCHANGED << MAX_LIMIT, cardsCache, body, rawSql, limitedSql, steps, executed >>
  /\ UNCHANGED otherVars

\* setTimeoutMs settles, and runSelect is called with limitedSql.
CallRunSelect(r) ==
  /\ pc[r] = "setTimeoutMs"
  /\ executed' = [executed EXCEPT ![r] = Append(@, limitedSql[r])]
  /\ steps' = [steps EXCEPT ![r] = @ \o << "runSelect:call" >>]
  /\ pc' = [pc EXCEPT ![r] = "runSelect"]
  /\ UNCHANGED << MAX_LIMIT, cardsCache, body, content, rawSql, limitedSql, response >>
  /\ UNCHANGED otherVars

\* Mutant: the response carries the generator's text.
ResponseSql_Raw(r) == rawSql[r]

\* The sql field of the response of a successful request.
ResponseSql(r) == limitedSql[r]

\* runSelect settles; on success the rows fit the budget and the response is
\* sent.
RunSelectDone(r) ==
  /\ pc[r] = "runSelect"
  /\ \/ /\ \E e \in ExecutionErrors : Fail(r, 500, e)
        /\ UNCHANGED steps
     \/ /\ response' = [response EXCEPT ![r] =
               [status |-> 200, sql |-> ResponseSql(r), error |-> "", truncated |-> FALSE]]
        /\ steps' = [steps EXCEPT ![r] = @ \o << "runSelect:return" >>]
        /\ pc' = [pc EXCEPT ![r] = "done"]
  /\ UNCHANGED << MAX_LIMIT, cardsCache, body, content, rawSql, limitedSql, executed >>
  /\ UNCHANGED otherVars

\* runSelect rejects: the statement ran into statement_timeout.
StatementTimedOut(r) ==
  /\ pc[r] = "runSelect"
  /\ Fail(r, 500, StatementTimeoutError)
  /\ UNCHANGED << MAX_LIMIT, cardsCache, body, content, rawSql, limitedSql, steps, executed >>
  /\ UNCHANGED otherVars

\* runSelect resolves with rows over the budget: they are cut to fit and the
\* response is sent, or the loop of the size cap does not end (the size cap
\* is taken in detail further down).
RowsOverBudget(r) ==
  /\ pc[r] = "runSelect"
  /\ steps' = [steps EXCEPT ![r] = @ \o << "runSelect:return" >>]
  /\ \/ /\ response' = [response EXCEPT ![r] =
               [status |-> 200, sql |-> ResponseSql(r), error |-> "", truncated |-> TRUE]]
        /\ pc' = [pc EXCEPT ![r] = "done"]
     \/ /\ pc' = [pc EXCEPT ![r] = "while"]
        /\ UNCHANGED response
  /\ UNCHANGED << MAX_LIMIT, cardsCache, body, content, rawSql, limitedSql, executed >>
  /\ UNCHANGED otherVars

Next ==
  \E r \in Requests :
    \/ Receive(r)
    \/ TestConnectionDone(r)
    \/ BuildCardsDone(r)
    \/ GenerateSQLDone(r)
    \/ CallRunSelect(r)
    \/ RunSelectDone(r)

Spec == Init /\ [][Next]_vars

\* The pipeline with the default MAX_LIMIT and with every way the generator
\* and runSelect can fail and every way the size cap can go.
FaultInit == Init /\ MAX_LIMIT = DefaultMaxLimit

FaultNext ==
  \/ Next
  \/ \E r \in Requests :
       \/ GenerateSQLThrows(r)
       \/ StatementTimedOut(r)
       \/ RowsOverBudget(r)

FaultSpec == FaultInit /\ [][FaultNext]_vars

(***************************************************************************)
(* Properties of the /query pipeline                                       *)
(***************************************************************************)

\* Every text rawSql can hold.
SqlTexts == GenOutputs \cup {""}

\* The word w (lower case) occurs in s in any letter case, with no letter,
\* digit or underscore next to it on either side.
ContainsWholeWord(s, w) ==
  \E i \in 1..Len(s) :
    /\ i + Len(w) - 1 <= Len(s)
    /\ toLowerCase(SubSeq(s, i, i + Len(w) - 1)) = w
    /\ At(s, i - 1) \notin WordChars
    /\ At(s, i + Len(w)) \notin WordChars

\* The integers that follow a LIMIT keyword of s, by the position of the keyword.
DeclaredLimits(s) ==
  { << i, LimitCaptureAt(s, i) >> : i \in { j \in 1..Len(s) : LimitMatchAt(s, j) } }

\* The statement's own LIMIT: the last LIMIT clause of the text, which is the
\* one of the outermost query (the earlier ones belong to subqueries).
OwnLimit(s) ==
  { p[2] : p \in { q \in DeclaredLimits(s) : \A o \in DeclaredLimits(s) : o[1] <= q[1] } }

\* The verdicts of the guard functions on every text, evaluated once.
PassesGuard == [ s \in SqlTexts |-> isSafeSelect(s) /\ ~hasRandomOrder(s) ]

HasNoLimitKeyword == [ s \in SqlTexts |-> ~ContainsWholeWord(s, "limit") ]

OwnLimitOf == [ s \in SqlTexts |-> OwnLimit(s) ]

Trimmed == [ s \in SqlTexts |-> trim(s) ]

Guarded(r) == "guard" \in { steps[r][i] : i \in DOMAIN steps[r] }

Rejected(r) == pc[r] = "done" /\ response[r].status = 400 /\ executed[r] = << >>

IsPrefix(a, b) == Len(a) <= Len(b) /\ a = SubSeq(b, 1, Len(a))

\* The order of the steps when the cards come from the cache.
HitOrder ==
  << "cards", "pickTopK", "generateSQL:call", "generateSQL:return", "guard",
     "runSelect:call", "runSelect:return" >>

\* The order of the steps when the cards are rebuilt.
RefreshOrder == << "buildCards:call", "buildCards:return" >> \o HitOrder

\* C1: runSelect is called only for generator SQL that passed isSafeSelect and
\* for which hasRandomOrder is false; a request whose generator SQL fails either
\* check ends with a client error (400) and without any runSelect call.
C1_RunOnlyGuarded ==
  \A r \in Requests :
    /\ executed[r] # << >> => PassesGuard[rawSql[r]]
    /\ (Guarded(r) /\ ~PassesGuard[rawSql[r]]) => Rejected(r)

\* C1 witness: one request was rejected for DELETE FROM public.orders and
\* another one reached runSelect.
C1_Witness ==
  /\ \E r \in Requests : rawSql[r] = "DELETE FROM public.orders" /\ Rejected(r)
  /\ \E r \in Requests : executed[r] # << >>

\* C2 (as claimed): every statement passed to runSelect is bounded: it holds
\* a LIMIT keyword followed by an integer that is at most MAX_LIMIT.
C2_ExecutedIsBounded ==
  \A r \in Requests : \A i \in DOMAIN executed[r] :
    \E p \in DeclaredLimits(executed[r][i]) : p[2] <= MAX_LIMIT

\* C3: within one request the steps happen in the pipeline's order, each one
\* completed before the next begins: cards, pickTopK, generator, guard,
\* runSelect.
C3_StrictOrder ==
  \A r \in Requests : IsPrefix(steps[r], HitOrder) \/ IsPrefix(steps[r], RefreshOrder)

\* C3 witness: one request went through the whole pipeline on a cache hit and
\* another one on a refresh.
C3_Witness ==
  /\ \E r \in Requests : steps[r] = HitOrder
  /\ \E r \in Requests : steps[r] = RefreshOrder

\* C4 (as claimed): generator SQL whose own LIMIT exceeds MAX_LIMIT never
\* reaches runSelect, and its request ends with a client error.
C4_OverLimitRejected ==
  \A r \in Requests :
    (\E v \in OwnLimitOf[rawSql[r]] : v > MAX_LIMIT)
      => /\ executed[r] = << >>
         /\ pc[r] = "done" => response[r].status = 400

\* C5 (as claimed): generator SQL that passes the guard and has no LIMIT
\* keyword is executed as its trimmed text followed by " LIMIT <MAX_LIMIT>".
C5_AppendsMaxLimit ==
  \A r \in Requests : \A i \in DOMAIN executed[r] :
    (PassesGuard[rawSql[r]] /\ HasNoLimitKeyword[rawSql[r]])
      => executed[r][i] = Trimmed[rawSql[r]] \o " LIMIT " \o ToString(MAX_LIMIT)

\* C5 (amended): generator SQL that passes the guard and has no LIMIT keyword
\* is executed as its trimmed text followed by " LIMIT <min(MAX_LIMIT, 1000)>".
C5_AppendsCappedLimit ==
  \A r \in Requests : \A i \in DOMAIN executed[r] :
    (PassesGuard[rawSql[r]] /\ HasNoLimitKeyword[rawSql[r]])
      => executed[r][i]
           = Trimmed[rawSql[r]] \o " LIMIT " \o ToString(IF MAX_LIMIT < 1000 THEN MAX_LIMIT ELSE 1000)

\* C5 witness: with MAX_LIMIT above 1000, SELECT * FROM public.orders was
\* passed to runSelect, and so was a text that needed trimming.
C5_Witness ==
  /\ MAX_LIMIT > 1000
  /\ \E r \in Requests : rawSql[r] = "SELECT * FROM public.orders" /\ executed[r] # << >>
  /\ \E r \in Requests : rawSql[r] # Trimmed[rawSql[r]] /\ executed[r] # << >>

\* C6: the sql field of a successful response is the statement that was
\* passed to runSelect in that request.
C6_ResponseSqlIsExecuted ==
  \A r \in Requests :
    response[r].status = 200 => executed[r] = << response[r].sql >>

\* C6 witness: a successful response to a request whose generator SQL had no
\* LIMIT, so that the executed text differs from the generated one.
C6_Witness ==
  \E r \in Requests :
    response[r].status = 200 /\ HasNoLimitKeyword[rawSql[r]] /\ rawSql[r] # ""

\* Client input the handler is to reject: no object as body, a phrase that
\* is no string or has not 1 to 2000 characters, a dbUrl that is there and is
\* no string, or no dbUrl when no default is configured.
InvalidInput(b) ==
  \/ b.t # "object"
  \/ b.phrase.t # "string"
  \/ Len(b.phrase.s) < 1
  \/ Len(b.phrase.s) > 2000
  \/ b.dbUrl.t \notin { "undefined", "string" }
  \/ (b.dbUrl.t = "undefined" \/ b.dbUrl = Str("")) /\ PG_URL = ""

\* C26: a request with invalid input ends at once with a client error (400):
\* no step of the pipeline begins, nothing is executed, and the step that
\* rejects it leaves the pool registry and the card cache as they are.
C26_InvalidInputTouchesNothing ==
  /\ [](\A r \in Requests :
          (pc[r] # "idle" /\ InvalidInput(body[r]))
            => /\ pc[r] = "done"
               /\ response[r].status = 400
               /\ steps[r] = << >>
               /\ executed[r] = << >>)
  /\ [][ \A r \in Requests :
           (pc[r] = "idle" /\ pc'[r] # "idle" /\ InvalidInput(body'[r]))
             => UNCHANGED << poolVars, cardsCache >> ]_vars

\* C26 witness: a request with a phrase of 2001 characters was rejected while
\* the registry held a pool and the card cache held an entry.
C26_Witness ==
  \E r \in Requests :
    /\ body[r].phrase = Str(LongPhrase)
    /\ pc[r] = "done"
    /\ response[r].status = 400
    /\ poolCache # << >>
    /\ cardsCache # {}

\* No step of the request r was taken twice.
NoStepTwice(r) ==
  \A i, j \in DOMAIN steps[r] : steps[r][i] = steps[r][j] => i = j

\* C25: a request passes at most one statement to runSelect and takes no
\* step of the pipeline twice, and once its response is sent it does nothing
\* more, whether the response was truncated or an error.
C25_ExecutedAtMostOnce ==
  /\ [](\A r \in Requests : Len(executed[r]) <= 1 /\ NoStepTwice(r))
  /\ [][ \A r \in Requests :
           pc[r] = "done" =>
             /\ pc'[r] = "done"
             /\ executed'[r] = executed[r]
             /\ steps'[r] = steps[r] ]_vars

\* C25 witness: one request ended with a truncated response and another one
\* with the error of a statement that timed out, each after one runSelect.
C25_Witness ==
  /\ \E r \in Requests :
       pc[r] = "done" /\ response[r].truncated /\ Len(executed[r]) = 1
  /\ \E r \in Requests :
       /\ pc[r] = "done"
       /\ response[r].error = StatementTimeoutError
       /\ Len(executed[r]) = 1

\* A content that is no JSON, or the JSON of an object whose sql is no
\* string.
Malformed(c) == c.t = "notJson" \/ (c.t = "json" /\ c.sql.t # "string")

\* C27: a request whose generator answered with a malformed content fails
\* without a runSelect call, and with the status of a guard rejection, 400.
C27_MalformedIsRejectedLikeGuard ==
  \A r \in Requests :
    Malformed(content[r])
      => /\ pc[r] = "done"
         /\ executed[r] = << >>
         /\ response[r].status = 400

\* The messages of the errors of the database driver.
DatabaseErrors ==
  ConnectErrors \cup IntrospectionErrors \cup ExecutionErrors \cup { StatementTimeoutError }

\* C28: no response holds the message of an error of the database driver.
C28_NoRawErrorText ==
  \A r \in Requests : \A e \in DatabaseErrors : ~includes(response[r].error, e)

(***************************************************************************)
(* The guard functions applied alone to SQL texts                          *)
(***************************************************************************)

\* The number of fragments a text is put together from.
MaxFrags == 3

\* The fragments: the two allowed first keywords (one with the white space
\* that ends it), a banned keyword, a system schema with its dot, and the
\* characters that make or break a word boundary or a statement.
Fragments ==
  { "SELECT ", "With", " ", "\n", "x", "_", ";", ".", "Delete", "pg_catalog." }

RECURSIVE Concat(_)
Concat(fs) == IF fs = << >> THEN "" ELSE Head(fs) \o Concat(Tail(fs))

\* Every text of at most MaxFrags fragments.
FragmentTexts ==
  { Concat(fs) : fs \in UNION { [1..n -> Fragments] : n \in 0..MaxFrags } }

\* s with its letters alternately in upper and lower case.
RECURSIVE AltCase(_, _)
AltCase(s, up) ==
  IF s = "" THEN ""
  ELSE (IF up THEN UpperChar(SubSeq(s, 1, 1)) ELSE LowerChar(SubSeq(s, 1, 1)))
         \o AltCase(Tail(s), ~up)

\* A word in lower, upper and mixed case.
CaseVariants(w) == { w, toUpperCase(w), AltCase(w, TRUE), AltCase(w, FALSE) }

\* What precedes and what follows a keyword in a text.
Befores == { "", " ", "SELECT ", "select x", "with t_", "SELECT a FROM \"" }

Afters == { "", " t", "d", "_t", ".t", ". t", "\".t", "(1)" }

\* Every banned keyword and system schema, in every case variant, at the
\* beginning of a text and inside one, as a whole word and as part of one.
KeywordTexts ==
  { b \o v \o a :
      b \in Befores,
      v \in UNION { CaseVariants(w) : w \in BannedWords \cup SystemSchemaWords },
      a \in Afters }

\* The LIMIT keyword in every case variant, as a whole word and as part of
\* one, in texts with and without white space around them.
LimitTexts ==
  { b \o v \o a :
      b \in { "", " ", "SELECT x ", "\tselect x", "select _" },
      v \in CaseVariants("limit"),
      a \in { "", " 5", "s", " 5 \n", "_" } }

\* The white space between two tokens of a clause.
Gaps == { "", " ", " \n\t" }

\* ORDER BY clauses: random() and other sort keys, in several letter cases,
\* with no, one and several white-space characters between the tokens.
RandomTexts ==
  { b \o o \o g1 \o by \o g2 \o key \o g3 \o "(" \o g4 \o close :
      b \in { "", "select * from a " },
      o \in { "order", "ORDER", "OrDeR" },
      g1 \in Gaps,
      by \in { "by", "BY" },
      g2 \in { " ", " \n\t" },
      key \in { "random", "RANDOM", "rAnDoM", "name" },
      g3 \in { "", " " },
      g4 \in { "", "\n " },
      close \in { ")", "1)" } }
    \cup { "SELECT * FROM a ORDER BY name", "select * from a order by random" }

\* The values of the argument max.
MaxValues == { 0, 5, 1000 }

GuardTexts == FragmentTexts \cup KeywordTexts \cup LimitTexts \cup RandomTexts

\* No request has arrived.
PipelineIdle ==
  /\ MAX_LIMIT = DefaultMaxLimit
  /\ cardsCache = {}
  /\ pc = [r \in Requests |-> "idle"]
  /\ body = [r \in Requests |-> NoBody]
  /\ content = [r \in Requests |-> NoContent]
  /\ rawSql = [r \in Requests |-> ""]
  /\ limitedSql = [r \in Requests |-> ""]
  /\ steps = [r \in Requests |-> << >>]
  /\ executed = [r \in Requests |-> << >>]
  /\ response = [r \in Requests |-> NoResponse]

GuardInit ==
  /\ PipelineIdle
  /\ PickIdle
  /\ CacheIdle
  /\ PoolIdle
  /\ ConnIdle
  /\ CapIdle
  /\ ExplainIdle
  /\ gSql \in GuardTexts
  /\ gMax = 0
  /\ gFn = "none"
  /\ gOut = {}

CallIsSafeSelect ==
  /\ gFn = "none"
  /\ gFn' = "isSafeSelect"
  /\ gOut' = { isSafeSelect(gSql) }
  /\ UNCHANGED << gSql, gMax >>
  /\ UNCHANGED guardOthers

CallEnsureLimit ==
  /\ gFn = "none"
  /\ \E max \in MaxValues :
       /\ gMax' = max
       /\ gOut' = { ensureLimit(gSql, max) }
  /\ gFn' = "ensureLimit"
  /\ UNCHANGED gSql
  /\ UNCHANGED guardOthers

CallHasRandomOrder ==
  /\ gFn = "none"
  /\ gFn' = "hasRandomOrder"
  /\ gOut' = { hasRandomOrder(gSql) }
  /\ UNCHANGED << gSql, gMax >>
  /\ UNCHANGED guardOthers

GuardNext == CallIsSafeSelect \/ CallEnsureLimit \/ CallHasRandomOrder

GuardSpec == GuardInit /\ [][GuardNext]_vars

(***************************************************************************)
(* Properties of isSafeSelect                                              *)
(***************************************************************************)

\* The keywords the specification bans.
ClaimedBanned ==
  { "insert", "update", "delete", "alter", "drop", "create",
    "truncate", "copy", "grant", "revoke", "vacuum", "analyze" }

\* The qualified-name prefixes of the system schemas.
ClaimedSystemPrefixes == { "pg_catalog.", "information_schema." }

\* s begins with w (lower case) in any letter case.
BeginsWith(s, w) == Len(w) <= Len(s) /\ toLowerCase(SubSeq(s, 1, Len(w))) = w

\* The positions of s at which w (lower case) occurs in any letter case.
Occurrences(s, w) ==
  { i \in 1..Len(s) :
      i + Len(w) - 1 <= Len(s) /\ toLowerCase(SubSeq(s, i, i + Len(w) - 1)) = w }

\* s begins with w as a whole word: no letter, digit or underscore follows it.
BeginsWithWord(s, w) == BeginsWith(s, w) /\ At(s, Len(w) + 1) \notin WordChars

\* No semicolon, no banned keyword as a whole word, no system-schema prefix.
FreeOfForbiddenText(s) ==
  /\ ";" \notin Chars(s)
  /\ \A w \in ClaimedBanned : ~ContainsWholeWord(s, w)
  /\ \A w \in ClaimedSystemPrefixes : Occurrences(s, w) = {}

IsSafeSelectReturned == gFn = "isSafeSelect"

\* C7: isSafeSelect is false for every text that holds a semicolon.
C7_SemicolonIsUnsafe ==
  (IsSafeSelectReturned /\ ";" \in Chars(gSql)) => gOut = {FALSE}

\* C7 witness: isSafeSelect returned false for a text that passes every other
\* check and holds a semicolon.
C7_Witness ==
  IsSafeSelectReturned /\ gSql = "SELECT x;" /\ gOut = {FALSE}

\* C8: isSafeSelect is false for every text that begins with a banned keyword
\* or holds one as a whole word, in any letter case.
C8_BannedKeywordIsUnsafe ==
  (IsSafeSelectReturned
     /\ \E w \in ClaimedBanned : BeginsWith(gSql, w) \/ ContainsWholeWord(gSql, w))
    => gOut = {FALSE}

\* C8 witness: isSafeSelect returned false for a SELECT holding a banned
\* keyword in mixed case as a whole word.
C8_Witness ==
  IsSafeSelectReturned /\ gSql = "SELECT AnAlYzE" /\ gOut = {FALSE}

\* C9 (as claimed): isSafeSelect is true for every text that, trimmed, starts
\* with SELECT or WITH in any letter case and holds no semicolon, no banned
\* keyword and no system-schema reference.
C9_SelectOrWithIsSafe ==
  (IsSafeSelectReturned
     /\ (BeginsWith(trim(gSql), "select") \/ BeginsWith(trim(gSql), "with"))
     /\ FreeOfForbiddenText(trim(gSql)))
    => gOut = {TRUE}

\* C9 (amended): isSafeSelect is true for every text that, trimmed, starts
\* with SELECT or WITH as a whole word in any letter case and holds no
\* semicolon, no banned keyword and no system-schema reference.
C9_SelectOrWithWordIsSafe ==
  (IsSafeSelectReturned
     /\ (BeginsWithWord(trim(gSql), "select") \/ BeginsWithWord(trim(gSql), "with"))
     /\ FreeOfForbiddenText(trim(gSql)))
    => gOut = {TRUE}

\* C9 witness: isSafeSelect returned true for a text that starts with WITH
\* only once it is trimmed.
C9_Witness ==
  /\ IsSafeSelectReturned
  /\ gOut = {TRUE}
  /\ gSql # trim(gSql)
  /\ BeginsWithWord(trim(gSql), "with")
  /\ FreeOfForbiddenText(trim(gSql))

\* C10 (as claimed): isSafeSelect is false for every text that holds
\* pg_catalog. or information_schema. as a substring, in any letter case.
C10_SystemSchemaSubstringIsUnsafe ==
  (IsSafeSelectReturned /\ \E w \in ClaimedSystemPrefixes : Occurrences(gSql, w) # {})
    => gOut = {FALSE}

\* C10 (amended): isSafeSelect is false for every text that holds pg_catalog.
\* or information_schema., in any letter case, at a place where no letter,
\* digit or underscore precedes it.
C10_SystemSchemaNameIsUnsafe ==
  (IsSafeSelectReturned
     /\ \E w \in ClaimedSystemPrefixes :
          \E i \in Occurrences(gSql, w) : At(gSql, i - 1) \notin WordChars)
    => gOut = {FALSE}

\* C10 witness: isSafeSelect returned false for a SELECT from
\* information_schema written in mixed case.
C10_Witness ==
  IsSafeSelectReturned /\ gSql = "SELECT InFoRmAtIoN_ScHeMa.t" /\ gOut = {FALSE}

(***************************************************************************)
(* pickTopK applied on its own                                             *)
(***************************************************************************)

\* The number of cards of a list drawn freely from the relations.
MaxCards == 3

CardNamed(n) == CHOOSE c \in CardPool : c.name = n

\* All the relations, as listRelations orders them and in the opposite order.
FullLists ==
  { [ i \in 1..Len(ns) |-> CardNamed(ns[i]) ] :
      ns \in { << "public.accounts", "public.audit", "public.customers",
                  "public.order_items", "public.orders", "public.payments",
                  "public.zones" >>,
               << "public.zones", "public.payments", "public.orders",
                  "public.order_items", "public.customers", "public.audit",
                  "public.accounts" >> } }

\* Every list of at most MaxCards different relations, and the full lists.
CardLists ==
  { cs \in UNION { [1..n -> CardPool] : n \in 0..MaxCards } :
      \A i, j \in DOMAIN cs : cs[i] = cs[j] => i = j }
    \cup FullLists

\* The argument k: left out, below 1, 1 and above.
KArgs == { {}, { -1 }, { 0 }, { 1 }, { 2 } }

PickInit ==
  /\ PipelineIdle
  /\ GuardIdle
  /\ CacheIdle
  /\ PoolIdle
  /\ ConnIdle
  /\ CapIdle
  /\ ExplainIdle
  /\ pCards \in CardLists
  /\ pPhrase \in Phrases
  /\ pK \in KArgs
  /\ pOut = {}

CallPickTopK ==
  /\ pOut = {}
  /\ pOut' = { pickTopK(pCards, pPhrase, pK) }
  /\ UNCHANGED << pCards, pPhrase, pK >>
  /\ UNCHANGED pickOthers

PickNext == CallPickTopK

PickSpec == PickInit /\ [][PickNext]_vars

(***************************************************************************)
(* The card cache of src/server.ts in detail: the handlers of /query and   *)
(* /explain from testConnection to pickTopK, with the clock, the entries   *)
(* of cardsCache and the calls of buildCards.  An entry is a record of ts  *)
(* and cards, cards being the identity of a card array in cardSeqs.        *)
(***************************************************************************)

\* The default of CARDS_TTL_SECONDS.
CARDS_TTL_SECONDS == 900

ttlMs == CARDS_TTL_SECONDS * 1000

\* By how many milliseconds Date.now() is ahead of what it returned last:
\* none, the TTL, and more than the TTL.
TickSteps == { 0, ttlMs, ttlMs + 1 }

\* The phrase of the requests.
CachePhrase == "orders id"

\* Mutant: an entry as old as the TTL is rebuilt.
NeedsRefresh_AtTtl(e, t) == e = {} \/ \E x \in e : t - x.ts >= ttlMs

\* Mutant: an entry is used however old it is.
NeedsRefresh_OnlyMissing(e, t) == e = {}

\* !entry || now - entry.ts > ttlMs
NeedsRefresh(e, t) == e = {} \/ \E x \in e : t - x.ts > ttlMs

\* The card describeRelation returns: no join hints yet.
describeRelation(name) == [ CardNamed(name) EXCEPT !.join_hints = << >> ]

\* Mutant: Promise.allSettled, which waits for every call and rejects never.
PromiseAll_Settled(res) ==
  IF \E c \in SubCalls : res[c] = "pending" THEN "pending" ELSE "fulfilled"

\* The state of Promise.all over calls in the states res.
PromiseAll(res) ==
  IF \E c \in SubCalls : res[c] = "rejected" THEN "rejected"
  ELSE IF \E c \in SubCalls : res[c] = "pending" THEN "pending"
  ELSE "fulfilled"

\* The cards of the describeRelation calls that are fulfilled, in the order
\* of the calls.
RECURSIVE DescribedCards(_, _)
DescribedCards(res, i) ==
  IF i > Len(Relations) THEN << >>
  ELSE (IF res[<< "describeRelation", Relations[i] >>] = "fulfilled"
          THEN << describeRelation(Relations[i]) >> ELSE << >>)
         \o DescribedCards(res, i + 1)

\* The hints of the relationships fks that begin at the relation name.
RECURSIVE hintsOf(_, _)
hintsOf(name, fks) ==
  IF fks = << >> THEN << >>
  ELSE (IF Head(fks).from = name
          THEN << name \o "." \o Head(fks).column \o " -> "
                    \o Head(fks).to \o "." \o Head(fks).toColumn >>
          ELSE << >>)
         \o hintsOf(name, Tail(fks))

\* buildCards after Promise.all: every card gets its join hints.
WithJoinHints(cards, fks) ==
  [ i \in DOMAIN cards |-> [ cards[i] EXCEPT !.join_hints = hintsOf(cards[i].name, fks) ] ]

\* Mutant: pickTopK sorts its argument in place.
ArgumentAfterPickTopK_Sorted(cards, phrase) == pickTopK(cards, phrase, { Len(cards) })

\* The array pickTopK is given, after the call: pickTopK maps it to a new
\* array and sorts that one.
ArgumentAfterPickTopK(cards, phrase) == cards

\* const cards = entry.cards; pickTopK(cards, phrase, 6) on the array id.
AfterSelection(seqs, id) ==
  [ seqs EXCEPT ![id] = ArgumentAfterPickTopK(seqs[id], CachePhrase) ]

CacheInit ==
  /\ PipelineIdle
  /\ GuardIdle
  /\ PickIdle
  /\ CacheIdle
  /\ PoolIdle
  /\ ConnIdle
  /\ CapIdle
  /\ ExplainIdle

\* A request with a connection string arrives; testConnection is called.
BeginRequest(r) ==
  /\ cPc[r] = "idle"
  /\ \E db \in DbUrls : cDb' = [cDb EXCEPT ![r] = db]
  /\ cPc' = [cPc EXCEPT ![r] = "testConnection"]
  /\ UNCHANGED << now, cacheEntry, cardSeqs, cNow, found, entry, results,
                  calls, entryBefore, entryAfter >>
  /\ UNCHANGED cacheOthers

\* The request fails: the error goes to the error handler, the cache is not
\* touched.
Failed(r) ==
  /\ cPc' = [cPc EXCEPT ![r] = "failed"]
  /\ entryBefore' = [entryBefore EXCEPT ![r] = cacheEntry[cDb[r]]]
  /\ entryAfter' = [entryAfter EXCEPT ![r] = cacheEntry'[cDb[r]]]

TestConnectionFailed(r) ==
  /\ cPc[r] = "testConnection"
  /\ UNCHANGED << now, cacheEntry, cardSeqs, cDb, cNow, found, entry,
                  results, calls >>
  /\ Failed(r)
  /\ UNCHANGED cacheOthers

\* testConnection returns: the entry is looked up and the clock is read, and
\* the entry is either used as it is or buildCards is called, which calls
\* listRelations.
LookupCards(r) ==
  /\ cPc[r] = "testConnection"
  /\ UNCHANGED << cacheEntry, cDb, results >>
  /\ \E d \in TickSteps : now' = now + d
  /\ cNow' = [cNow EXCEPT ![r] = now']
  /\ found' = [found EXCEPT ![r] = cacheEntry[cDb[r]]]
  /\ IF NeedsRefresh(cacheEntry[cDb[r]], now')
       THEN /\ cPc' = [cPc EXCEPT ![r] = "listRelations"]
            /\ calls' = [calls EXCEPT ![r] = << "listRelations" >>]
            /\ UNCHANGED << entry, cardSeqs, entryBefore, entryAfter >>
       ELSE /\ cPc' = [cPc EXCEPT ![r] = "selected"]
            /\ entry' = [entry EXCEPT ![r] = cacheEntry[cDb[r]]]
            /\ cardSeqs' =
                 AfterSelection(cardSeqs, (CHOOSE e \in cacheEntry[cDb[r]] : TRUE).cards)
            /\ entryBefore' = [entryBefore EXCEPT ![r] = cacheEntry[cDb[r]]]
            /\ entryAfter' = [entryAfter EXCEPT ![r] = cacheEntry'[cDb[r]]]
            /\ UNCHANGED calls
  /\ UNCHANGED cacheOthers

\* listRelations returns or fails: buildCards calls describeRelation for
\* every relation and listRelationships, or fails.
ListRelationsDone(r) ==
  /\ cPc[r] = "listRelations"
  /\ \/ /\ cPc' = [cPc EXCEPT ![r] = "Promise.all"]
        /\ results' = [results EXCEPT ![r] = [ c \in SubCalls |-> "pending" ]]
        /\ calls' = [calls EXCEPT ![r] =
                       @ \o [ i \in DOMAIN PromiseAllCalls |-> PromiseAllCalls[i][1] ]]
        /\ UNCHANGED << cacheEntry, entryBefore, entryAfter >>
     \/ /\ UNCHANGED << cacheEntry, results, calls >>
        /\ Failed(r)
  /\ UNCHANGED << now, cardSeqs, cDb, cNow, found, entry >>
  /\ UNCHANGED cacheOthers

\* One of the calls awaited together settles.  When Promise.all is rejected
\* buildCards and the request fail; when it is fulfilled buildCards fills in
\* the join hints and returns the cards, and the handler stores them in a
\* new entry with the time of its lookup and goes on to pickTopK.
SubCallSettled(r, c, outcome) ==
  /\ cPc[r] = "Promise.all"
  /\ results[r][c] = "pending"
  /\ LET res == [results[r] EXCEPT ![c] = outcome] IN
       /\ results' = [results EXCEPT ![r] = res]
       /\ CASE PromiseAll(res) = "pending" ->
                 UNCHANGED << cPc, cacheEntry, cardSeqs, entry, entryBefore, entryAfter >>
            [] PromiseAll(res) = "rejected" ->
                 /\ UNCHANGED << cacheEntry, cardSeqs, entry >>
                 /\ Failed(r)
            [] PromiseAll(res) = "fulfilled" ->
                 LET fks   == IF res[<< "listRelationships", "" >>] = "fulfilled"
                                THEN Relationships ELSE << >>
                     cards == WithJoinHints(DescribedCards(res, 1), fks)
                     id    == Len(cardSeqs) + 1
                     new   == [ ts |-> cNow[r], cards |-> id ]
                 IN  /\ entry' = [entry EXCEPT ![r] = { new }]
                     /\ cacheEntry' = [cacheEntry EXCEPT ![cDb[r]] = { new }]
                     /\ cardSeqs' = AfterSelection(Append(cardSeqs, cards), id)
                     /\ cPc' = [cPc EXCEPT ![r] = "selected"]
                     /\ entryBefore' = [entryBefore EXCEPT ![r] = cacheEntry[cDb[r]]]
                     /\ entryAfter' = [entryAfter EXCEPT ![r] = { new }]
  /\ UNCHANGED << now, cDb, cNow, found, calls >>
  /\ UNCHANGED cacheOthers

DescribeRelationDone(r) ==
  \E i \in DOMAIN Relations :
    \E outcome \in { "fulfilled", "rejected" } :
      SubCallSettled(r, << "describeRelation", Relations[i] >>, outcome)

ListRelationshipsDone(r) ==
  \E outcome \in { "fulfilled", "rejected" } :
    SubCallSettled(r, << "listRelationships", "" >>, outcome)

CacheNext ==
  \E r \in Requests :
    \/ BeginRequest(r)
    \/ TestConnectionFailed(r)
    \/ LookupCards(r)
    \/ ListRelationsDone(r)
    \/ DescribeRelationDone(r)
    \/ ListRelationshipsDone(r)

CacheSpec == CacheInit /\ [][CacheNext]_vars

(***************************************************************************)
(* The pool registry of src/adapters/postgres.ts: the class LRU, poolCache *)
(* and getPool.  The Map of the LRU is the sequence of its entries in      *)
(* insertion order; a pool is the number of its creation.                  *)
(***************************************************************************)

\* How many getPool calls are made.
MaxPoolCalls == 4

\* Values CACHE_POOL_SIZE is configured to.
PoolSizes == { 1, 2 }

\* The connection strings getPool is called with.
PoolUrls == { "postgres://db1", "postgres://db2", "postgres://db3" }

PoolInit ==
  /\ PipelineIdle
  /\ GuardIdle
  /\ PickIdle
  /\ CacheIdle
  /\ ConnIdle
  /\ CapIdle
  /\ ExplainIdle
  /\ CACHE_POOL_SIZE \in PoolSizes
  /\ poolCache = << >>
  /\ pools = 0
  /\ poolLog = << >>
  /\ prevCache = << >>
  /\ returned = 0
  /\ ended = {}

\* A call of getPool on its own.
CallGetPool(dbUrl) ==
  /\ Len(poolLog) < MaxPoolCalls
  /\ getPool(dbUrl)
  /\ UNCHANGED poolOthers

PoolNext == \E dbUrl \in PoolUrls : CallGetPool(dbUrl)

PoolSpec == PoolInit /\ [][PoolNext]_vars

(***************************************************************************)
(* The adapter of src/adapters/postgres.ts: the field timeoutMs,           *)
(* setTimeoutMs, withClient and runSelect, on the connections of one pool. *)
(* A connection is in the pool when no adapter holds it.  What the         *)
(* database answers to a statement is the environment's choice.            *)
(***************************************************************************)

\* The values setTimeoutMs is called with.
TimeoutValues == { 0, 500 }

\* What the statement of runSelect can end in.
StatementOutcomes == { "rows", "error", "timeout" }

\* The connections no adapter holds.
InPool == { c \in Conns : \A a \in Adapters : client[a] # c }

ConnInit ==
  /\ PipelineIdle
  /\ GuardIdle
  /\ PickIdle
  /\ CacheIdle
  /\ PoolIdle
  /\ ConnIdle
  /\ CapIdle
  /\ ExplainIdle

\* new PostgresAdapter(pool): the instance of a new request.
fromUrl(a) ==
  /\ wPc[a] = "idle"
  /\ timeoutMs' = [timeoutMs EXCEPT ![a] = STATEMENT_TIMEOUT_MS]
  /\ declared' = [declared EXCEPT ![a] = STATEMENT_TIMEOUT_MS]
  /\ wResult' = [wResult EXCEPT ![a] = "none"]
  /\ acquired' = [acquired EXCEPT ![a] = 0]
  /\ released' = [released EXCEPT ![a] = 0]
  /\ UNCHANGED << wPc, client, setTo, statementTimeout, declaredAtRead >>
  /\ UNCHANGED connOthers

\* Mutant: the timeout is kept in one place for all instances.
timeoutMsAfterSet_Shared(field, a, ms) == [ x \in Adapters |-> ms ]

\* The fields timeoutMs after this.timeoutMs = ms on the instance a.
timeoutMsAfterSet(field, a, ms) == [field EXCEPT ![a] = ms]

\* setTimeoutMs(ms)
setTimeoutMs(a, ms) ==
  /\ timeoutMs' = timeoutMsAfterSet(timeoutMs, a, ms)
  /\ declared' = [declared EXCEPT ![a] = ms]
  /\ UNCHANGED << wPc, client, setTo, wResult, statementTimeout, declaredAtRead,
                  acquired, released >>
  /\ UNCHANGED connOthers

\* runSelect(sql, params) calls withClient, which calls pool.connect().
runSelect(a) ==
  /\ wPc[a] = "idle"
  /\ wPc' = [wPc EXCEPT ![a] = "connect"]
  /\ wResult' = [wResult EXCEPT ![a] = "none"]
  /\ acquired' = [acquired EXCEPT ![a] = 0]
  /\ released' = [released EXCEPT ![a] = 0]
  /\ UNCHANGED << timeoutMs, client, setTo, statementTimeout, declared, declaredAtRead >>
  /\ UNCHANGED connOthers

\* pool.connect() rejects: withClient throws before its try.
ConnectFailed(a) ==
  /\ wPc[a] = "connect"
  /\ wPc' = [wPc EXCEPT ![a] = "idle"]
  /\ wResult' = [wResult EXCEPT ![a] = "error"]
  /\ UNCHANGED << timeoutMs, client, setTo, statementTimeout, declared, declaredAtRead,
                  acquired, released >>
  /\ UNCHANGED connOthers

\* pool.connect() resolves with a connection of the pool; withClient reads
\* timeoutMs and sends SET statement_timeout TO ${timeout}.
Connected(a, c) ==
  /\ wPc[a] = "connect"
  /\ c \in InPool
  /\ client' = [client EXCEPT ![a] = c]
  /\ setTo' = [setTo EXCEPT ![a] = timeoutMs[a]]
  /\ declaredAtRead' = [declaredAtRead EXCEPT ![a] = declared[a]]
  /\ wPc' = [wPc EXCEPT ![a] = "SET"]
  /\ acquired' = [acquired EXCEPT ![a] = @ + 1]
  /\ UNCHANGED << timeoutMs, wResult, statementTimeout, declared, released >>
  /\ UNCHANGED connOthers

\* Sending SET statement_timeout TO DEFAULT, the first statement of finally.
Finally(a, result) ==
  /\ wPc' = [wPc EXCEPT ![a] = "finally"]
  /\ wResult' = [wResult EXCEPT ![a] = result]

\* The SET statement settles; when it took effect, fn sends the statement of
\* runSelect.
SetDone(a, ok) ==
  /\ wPc[a] = "SET"
  /\ IF ok
       THEN /\ statementTimeout' = [statementTimeout EXCEPT ![client[a]] = { setTo[a] }]
            /\ wPc' = [wPc EXCEPT ![a] = "fn"]
            /\ UNCHANGED wResult
       ELSE /\ Finally(a, "error")
            /\ UNCHANGED statementTimeout
  /\ UNCHANGED << timeoutMs, client, setTo, declared, declaredAtRead, acquired, released >>
  /\ UNCHANGED connOthers

\* The statement of runSelect settles; a statement_timeout of 0 cancels
\* nothing.
StatementDone(a, outcome) ==
  /\ wPc[a] = "fn"
  /\ outcome = "timeout" => statementTimeout[client[a]] # { 0 }
  /\ Finally(a, IF outcome = "rows" THEN "rows" ELSE "error")
  /\ UNCHANGED << timeoutMs, client, setTo, statementTimeout, declared, declaredAtRead,
                  acquired, released >>
  /\ UNCHANGED connOthers

\* Mutant: the reset is not wrapped in try and catch, so that its error
\* leaves the finally block before client.release().
releasesInFinally_NoCatch(ok) == IF ok THEN 1 ELSE 0

\* The client.release() calls of the finally block of withClient when the
\* reset succeeded or not: the error of the reset is caught and dropped, and
\* client.release() follows.
releasesInFinally(ok) == 1

\* SET statement_timeout TO DEFAULT settles, its error is caught and dropped;
\* client.release(), and withClient returns or throws.
ResetDone(a, ok) ==
  /\ wPc[a] = "finally"
  /\ statementTimeout' =
       IF ok THEN [statementTimeout EXCEPT ![client[a]] = {}] ELSE statementTimeout
  /\ released' = [released EXCEPT ![a] = @ + releasesInFinally(ok)]
  /\ client' = [client EXCEPT ![a] = IF releasesInFinally(ok) > 0 THEN 0 ELSE @]
  /\ setTo' = [setTo EXCEPT ![a] = 0]
  /\ declaredAtRead' = [declaredAtRead EXCEPT ![a] = 0]
  /\ wPc' = [wPc EXCEPT ![a] = "idle"]
  /\ UNCHANGED << timeoutMs, wResult, declared, acquired >>
  /\ UNCHANGED connOthers

\* testConnection() calls pool.connect().
testConnection(a) ==
  /\ wPc[a] = "idle"
  /\ wPc' = [wPc EXCEPT ![a] = "testConnection:connect"]
  /\ acquired' = [acquired EXCEPT ![a] = 0]
  /\ released' = [released EXCEPT ![a] = 0]
  /\ UNCHANGED << timeoutMs, client, setTo, wResult, statementTimeout, declared,
                  declaredAtRead >>
  /\ UNCHANGED connOthers

\* pool.connect() rejects: testConnection throws before its try.
TestConnectFailed(a) ==
  /\ wPc[a] = "testConnection:connect"
  /\ wPc' = [wPc EXCEPT ![a] = "idle"]
  /\ UNCHANGED << timeoutMs, client, setTo, wResult, statementTimeout, declared,
                  declaredAtRead, acquired, released >>
  /\ UNCHANGED connOthers

\* pool.connect() resolves with a connection of the pool; testConnection
\* sends SELECT 1.
TestConnected(a, c) ==
  /\ wPc[a] = "testConnection:connect"
  /\ c \in InPool
  /\ client' = [client EXCEPT ![a] = c]
  /\ acquired' = [acquired EXCEPT ![a] = @ + 1]
  /\ wPc' = [wPc EXCEPT ![a] = "SELECT 1"]
  /\ UNCHANGED << timeoutMs, setTo, wResult, statementTimeout, declared,
                  declaredAtRead, released >>
  /\ UNCHANGED connOthers

\* SELECT 1 settles; finally client.release(), and testConnection returns or
\* throws.
SelectOneDone(a, ok) ==
  /\ wPc[a] = "SELECT 1"
  /\ released' = [released EXCEPT ![a] = @ + 1]
  /\ client' = [client EXCEPT ![a] = 0]
  /\ wPc' = [wPc EXCEPT ![a] = "idle"]
  /\ UNCHANGED << timeoutMs, setTo, wResult, statementTimeout, declared,
                  declaredAtRead, acquired >>
  /\ UNCHANGED connOthers

ConnNext ==
  \E a \in Adapters :
    \/ fromUrl(a)
    \/ \E ms \in TimeoutValues : setTimeoutMs(a, ms)
    \/ runSelect(a)
    \/ ConnectFailed(a)
    \/ \E c \in Conns : Connected(a, c)
    \/ \E ok \in BOOLEAN : SetDone(a, ok)
    \/ \E outcome \in StatementOutcomes : StatementDone(a, outcome)
    \/ \E ok \in BOOLEAN : ResetDone(a, ok)

ConnSpec == ConnInit /\ [][ConnNext]_vars

\* The calls that take a connection from the pool, testConnection and
\* runSelect, of instances that keep the timeout they are constructed with.
ReleaseNext ==
  \E a \in Adapters :
    \/ testConnection(a)
    \/ TestConnectFailed(a)
    \/ \E c \in Conns : TestConnected(a, c)
    \/ \E ok \in BOOLEAN : SelectOneDone(a, ok)
    \/ runSelect(a)
    \/ ConnectFailed(a)
    \/ \E c \in Conns : Connected(a, c)
    \/ \E ok \in BOOLEAN : SetDone(a, ok)
    \/ \E outcome \in StatementOutcomes : StatementDone(a, outcome)
    \/ \E ok \in BOOLEAN : ResetDone(a, ok)

ReleaseSpec == ConnInit /\ [][ReleaseNext]_vars

(***************************************************************************)
(* The /explain handler of src/server.ts, lines 110 to 148, with the calls *)
(* it makes on its adapter in the order it makes them.  It shares the card *)
(* cache and the pool registry with /query.                                *)
(***************************************************************************)

ExplainInit ==
  /\ PipelineIdle
  /\ GuardIdle
  /\ PickIdle
  /\ CacheIdle
  /\ PoolIdle
  /\ ConnIdle
  /\ CapIdle
  /\ ExplainIdle

\* next(err) and the error handler: the status of the error, 500 without one.
ExplainFail(r, status, message) ==
  /\ xPc' = [xPc EXCEPT ![r] = "done"]
  /\ xResponse' = [xResponse EXCEPT ![r] =
                      [status |-> status, answer |-> "", error |-> message]]

\* The cards are at hand: pickTopK, getLLM (which throws when no generator is
\* configured), and the call of generateExplanation.
SelectAndExplain(r) ==
  \/ /\ xPc' = [xPc EXCEPT ![r] = "generateExplanation"]
     /\ UNCHANGED xResponse
  \/ ExplainFail(r, 500, "OPENAI_API_KEY missing")

\* validateBody, the dbUrl default, getAdapter, and the call of testConnection.
ExplainReceive(r) ==
  /\ xPc[r] = "idle"
  /\ \E b \in Bodies :
       /\ xBody' = [xBody EXCEPT ![r] = b]
       /\ IF validateBody(b) # ""
            THEN /\ ExplainFail(r, 400, validateBody(b))
                 /\ UNCHANGED << xCalls, poolVars >>
            ELSE /\ getPool(dbUrlOf(b))
                 /\ xCalls' = [xCalls EXCEPT ![r] = @ \o << AdapterCall("testConnection", "") >>]
                 /\ xPc' = [xPc EXCEPT ![r] = "testConnection"]
                 /\ UNCHANGED xResponse
  /\ UNCHANGED << cardsCache, xContent >>
  /\ UNCHANGED explainOthers

\* testConnection settles; on success the cache lookup: buildCards is called,
\* which calls listRelations, or the entry is used.  Whether an entry has
\* outlived the TTL depends on Date.now(): either answer.
ExplainTestConnectionDone(r) ==
  /\ xPc[r] = "testConnection"
  /\ \/ /\ \E e \in ConnectErrors : ExplainFail(r, 500, e)
        /\ UNCHANGED xCalls
     \/ \E expired \in BOOLEAN :
          IF dbUrlOf(xBody[r]) \notin cardsCache \/ expired
            THEN /\ xPc' = [xPc EXCEPT ![r] = "listRelations"]
                 /\ xCalls' = [xCalls EXCEPT ![r] = @ \o << AdapterCall("listRelations", "") >>]
                 /\ UNCHANGED xResponse
            ELSE /\ SelectAndExplain(r)
                 /\ UNCHANGED xCalls
  /\ UNCHANGED << cardsCache, xBody, xContent >>
  /\ UNCHANGED poolVars
  /\ UNCHANGED explainOthers

\* listRelations settles; on success buildCards calls describeRelation for
\* every relation and listRelationships.
ExplainListRelationsDone(r) ==
  /\ xPc[r] = "listRelations"
  /\ \/ /\ \E e \in IntrospectionErrors : ExplainFail(r, 500, e)
        /\ UNCHANGED xCalls
     \/ /\ xPc' = [xPc EXCEPT ![r] = "Promise.all"]
        /\ xCalls' = [xCalls EXCEPT ![r] =
                        @ \o [ i \in DOMAIN PromiseAllCalls |->
                                 AdapterCall(PromiseAllCalls[i][1], "") ]]
        /\ UNCHANGED xResponse
  /\ UNCHANGED << cardsCache, xBody, xContent >>
  /\ UNCHANGED poolVars
  /\ UNCHANGED explainOthers

\* Promise.all settles and with it buildCards; on success the entry is stored
\* and the steps up to the call of the generator follow.
ExplainBuildCardsDone(r) ==
  /\ xPc[r] = "Promise.all"
  /\ \/ /\ \E e \in IntrospectionErrors : ExplainFail(r, 500, e)
        /\ UNCHANGED cardsCache
     \/ /\ cardsCache' = cardsCache \cup { dbUrlOf(xBody[r]) }
        /\ SelectAndExplain(r)
  /\ UNCHANGED << xBody, xCalls, xContent >>
  /\ UNCHANGED poolVars
  /\ UNCHANGED explainOthers

\* Mutant: the handler passes the answer to runSelect, as /query does with
\* the statement of its generator.
CallsAfterExplanation_Executes(made, answer) ==
  made \o << AdapterCall("runSelect", answer) >>

\* The calls made on the adapter once generateExplanation has returned the
\* answer and the response is built from it: no further call.
CallsAfterExplanation(made, answer) == made

\* generateExplanation settles; on success the response is built from the
\* answer and sent.
GenerateExplanationDone(r) ==
  /\ xPc[r] = "generateExplanation"
  /\ \/ /\ ExplainFail(r, 500, "LLM error")
        /\ UNCHANGED << xCalls, xContent >>
     \/ \E c \in Explanations :
          /\ xContent' = [xContent EXCEPT ![r] = c]
          /\ IF generateExplanation(c).error # ""
               THEN /\ ExplainFail(r, 500, generateExplanation(c).error)
                    /\ UNCHANGED xCalls
               ELSE /\ xCalls' = [xCalls EXCEPT ![r] =
                          CallsAfterExplanation(@, generateExplanation(c).answer)]
                    /\ xResponse' = [xResponse EXCEPT ![r] =
                          [status |-> 200, answer |-> generateExplanation(c).answer,
                           error |-> ""]]
                    /\ xPc' = [xPc EXCEPT ![r] = "done"]
  /\ UNCHANGED << cardsCache, xBody >>
  /\ UNCHANGED poolVars
  /\ UNCHANGED explainOthers

ExplainNext ==
  \E r \in Requests :
    \/ ExplainReceive(r)
    \/ ExplainTestConnectionDone(r)
    \/ ExplainListRelationsDone(r)
    \/ ExplainBuildCardsDone(r)
    \/ GenerateExplanationDone(r)

ExplainSpec == ExplainInit /\ [][ExplainNext]_vars

(***************************************************************************)
(* Properties of the adapter                                               *)
(***************************************************************************)

\* C22: a connection in the pool has the default statement_timeout, whatever
\* the runSelect calls that held it ended in.
C22_PooledConnectionHasDefault ==
  \A c \in InPool : statementTimeout[c] = {}

\* C29: declaring a timeout sends nothing and leaves every connection and
\* every other instance's timeout alone, and the statement of runSelect runs
\* under the value declared last on its own instance when withClient read it.
C29_TimeoutIsPerInstance ==
  /\ [](\A a \in Adapters :
          wPc[a] = "fn" => statementTimeout[client[a]] = { declaredAtRead[a] })
  /\ [][ /\ declared' # declared =>
              UNCHANGED << wPc, client, setTo, statementTimeout >>
         /\ \A a \in Adapters :
              declared'[a] = declared[a] => timeoutMs'[a] = timeoutMs[a] ]_vars

\* C29 witness: the statements of two instances run at the same time, each
\* under the timeout declared on its own instance, and these differ.
C29_Witness ==
  \E a, b \in Adapters :
    /\ wPc[a] = "fn" /\ wPc[b] = "fn"
    /\ declaredAtRead[a] = 0 /\ declaredAtRead[b] = 500
    /\ statementTimeout[client[a]] = { 0 }
    /\ statementTimeout[client[b]] = { 500 }

\* The awaits of testConnection and withClient at which the call holds a
\* connection.
HoldsConnection(a) == wPc[a] \in { "SET", "fn", "finally", "SELECT 1" }

\* C31: a call of testConnection or runSelect that is under way holds the one
\* connection it acquired and has not released it, and a call that has ended,
\* however it ended, has released what it acquired once and holds nothing; no
\* connection is held by two calls.
C31_ReleasedExactlyOnce ==
  /\ \A a \in Adapters :
       IF HoldsConnection(a)
         THEN acquired[a] = 1 /\ released[a] = 0 /\ client[a] \in Conns
         ELSE released[a] = acquired[a] /\ acquired[a] <= 1 /\ client[a] = 0
  /\ \A a, b \in Adapters :
       (a # b /\ client[a] # 0) => client[a] # client[b]

\* C31 witness: a runSelect call whose statement failed and whose reset of
\* the timeout failed has ended with its connection released once, and the
\* connection is in the pool with the timeout the call had set.
C31_Witness ==
  \E a \in Adapters :
    /\ wPc[a] = "idle"
    /\ wResult[a] = "error"
    /\ acquired[a] = 1
    /\ released[a] = 1
    /\ \E c \in InPool : statementTimeout[c] # {}

\* The statements the calls made send to the database, in order.
RECURSIVE StatementsOfCalls(_)
StatementsOfCalls(made) ==
  IF made = << >> THEN << >>
  ELSE StatementsOf(Head(made)) \o StatementsOfCalls(Tail(made))

\* The connection test and the catalog queries of the introspection.
IntrospectionStatements ==
  { "SELECT 1", listRelationsSql, columnsSql, rowEstimateSql, listRelationshipsSql }

\* The texts of the generator's answer to a request: its answer and its sql.
GeneratorTexts(r) ==
  { f.s : f \in { x \in { xContent[r].answer, xContent[r].sql } : x.t = "string" } }

\* C32: a /explain request never calls runSelect, every statement it sends
\* is the connection test or a catalog query of the introspection, and none
\* is a text of the generator's answer.
C32_ExplainExecutesNothing ==
  \A r \in Requests :
    /\ \A i \in DOMAIN xCalls[r] : xCalls[r][i].method # "runSelect"
    /\ \A i \in DOMAIN StatementsOfCalls(xCalls[r]) :
         /\ StatementsOfCalls(xCalls[r])[i] \in IntrospectionStatements
         /\ StatementsOfCalls(xCalls[r])[i] \notin GeneratorTexts(r)

\* C32 witness: a /explain request that rebuilt the cards has sent its
\* response, whose answer is a SELECT statement of the generator.
C32_Witness ==
  \E r \in Requests :
    /\ xPc[r] = "done"
    /\ xResponse[r].status = 200
    /\ xResponse[r].answer = "SELECT * FROM public.orders"
    /\ \E i \in DOMAIN xCalls[r] : xCalls[r][i].method = "listRelationships"

(***************************************************************************)
(* The response size cap of the /query handler, src/server.ts lines 79 to  *)
(* 104, with the loop taken one iteration at a time.  A row is its JSON    *)
(* text; the texts are ASCII, so that a text has as many bytes as          *)
(* characters.                                                             *)
(***************************************************************************)

\* The most rows runSelect returns.
MaxRows == 10

\* Values MAX_RESPONSE_BYTES is configured to (intFromEnv accepts any
\* integer).
Budgets == { 1, 10, 40, 100, DefaultMaxResponseBytes }

\* JSON.stringify of the rows { id: i } and { id: i, note: "0123456789" }.
NarrowRow(i) == "{\"id\":" \o numberToString(i) \o "}"

WideRow(i) == "{\"id\":" \o numberToString(i) \o ",\"note\":\"0123456789\"}"

\* What runSelect returns as rows: up to MaxRows rows with the ids 1, 2, ...
\* that are all narrow, all wide, or wide in the first place only.
ResultSets ==
  UNION { { [ i \in 1..k |-> NarrowRow(i) ],
            [ i \in 1..k |-> WideRow(i) ],
            [ i \in 1..k |-> IF i = 1 THEN WideRow(i) ELSE NarrowRow(i) ] } :
          k \in 0..MaxRows }

\* JSON.stringify of an array of rows.
JSONstringify(rs) == "[" \o join(rs, ",") \o "]"

\* Buffer.byteLength of an ASCII text.
byteLength(s) == Len(s)

\* Math.max(1, Math.floor(n * 0.7)); below 90 the floor of the floating
\* point product is that of the exact one.
Shrunk(k) == Max(1, (7 * k) \div 10)

\* The condition of the while loop.
LoopCondition(k, bytes, budget) == k > 0 /\ bytes > budget

\* Mutant: the row count of the response stays that of runSelect.
RowCountAfterLoop_Stale(rs, count) == count

\* rowCount = rows.length after the loop.
RowCountAfterLoop(rs, count) == Len(rs)

CapInit ==
  /\ PipelineIdle
  /\ GuardIdle
  /\ PickIdle
  /\ CacheIdle
  /\ PoolIdle
  /\ ConnIdle
  /\ MAX_RESPONSE_BYTES \in Budgets
  /\ sPc = "runSelect"
  /\ fetched = << >>
  /\ rows = << >>
  /\ rowCount = 0
  /\ truncated = FALSE
  /\ approxBytes = 0
  /\ nRows = 0
  /\ sent = {}
  /\ ExplainIdle

\* runSelect resolves with exec; lines 82 to 88, up to the first test of the
\* loop.  exec.rowCount is the number of rows of a SELECT.
RunSelectResolved ==
  /\ sPc = "runSelect"
  /\ \E rs \in ResultSets :
       /\ fetched' = rs
       /\ rows' = rs
       /\ rowCount' = Len(rs)
       /\ approxBytes' = byteLength(JSONstringify(rs))
       /\ IF byteLength(JSONstringify(rs)) > MAX_RESPONSE_BYTES
            THEN /\ nRows' = Len(rs)
                 /\ sPc' = "while"
            ELSE /\ sPc' = "response"
                 /\ UNCHANGED nRows
  /\ UNCHANGED << MAX_RESPONSE_BYTES, truncated, sent >>
  /\ UNCHANGED capOthers

\* One iteration of the loop, lines 89 to 93.
Shrink ==
  /\ sPc = "while"
  /\ LoopCondition(nRows, approxBytes, MAX_RESPONSE_BYTES)
  /\ nRows' = Shrunk(nRows)
  /\ rows' = slice(rows, Shrunk(nRows))
  /\ approxBytes' = byteLength(JSONstringify(slice(rows, Shrunk(nRows))))
  /\ UNCHANGED << MAX_RESPONSE_BYTES, sPc, fetched, rowCount, truncated, sent >>
  /\ UNCHANGED capOthers

\* The loop ends, lines 94 and 95.
LoopExit ==
  /\ sPc = "while"
  /\ ~LoopCondition(nRows, approxBytes, MAX_RESPONSE_BYTES)
  /\ truncated' = TRUE
  /\ rowCount' = RowCountAfterLoop(rows, rowCount)
  /\ sPc' = "response"
  /\ UNCHANGED << MAX_RESPONSE_BYTES, fetched, rows, approxBytes, nRows, sent >>
  /\ UNCHANGED capOthers

\* Lines 98 to 104: the response is built and passed to res.json.
SendResponse ==
  /\ sPc = "response"
  /\ sent' = { [ rows |-> rows, rowCount |-> rowCount,
                 truncated |-> IF truncated THEN { TRUE } ELSE {} ] }
  /\ sPc' = "sent"
  /\ UNCHANGED << MAX_RESPONSE_BYTES, fetched, rows, rowCount, truncated,
                  approxBytes, nRows >>
  /\ UNCHANGED capOthers

CapNext == RunSelectResolved \/ Shrink \/ LoopExit \/ SendResponse

CapSpec == CapInit /\ [][CapNext]_vars

\* The handler runs on once runSelect has resolved: its code is synchronous.
CapFairSpec == CapSpec /\ WF_vars(CapNext)

(***************************************************************************)
(* Properties of the response size cap                                     *)
(***************************************************************************)

\* The serialized size of rows.
SerializedSize(rs) == byteLength(JSONstringify(rs))

\* C23 as stated: a response to rows over the budget carries leading rows
\* that are within the budget or are one row, truncated: true and their
\* number as rowCount; a response to rows within the budget carries them
\* all and no truncated.
C23_CappedToBudgetOrOneRow ==
  \A resp \in sent :
    IF SerializedSize(fetched) > MAX_RESPONSE_BYTES
      THEN /\ IsPrefix(resp.rows, fetched)
           /\ SerializedSize(resp.rows) <= MAX_RESPONSE_BYTES \/ Len(resp.rows) = 1
           /\ resp.truncated = { TRUE }
           /\ resp.rowCount = Len(resp.rows)
      ELSE /\ resp.rows = fetched
           /\ resp.truncated = {}

\* C23: a response to rows over the budget carries leading rows that are
\* within the budget or are one row, or none when none were fetched,
\* truncated: true and their number as rowCount; a response to rows within
\* the budget carries them all and no truncated.
C23_CappedToBudgetOrOneRowOrNone ==
  \A resp \in sent :
    IF SerializedSize(fetched) > MAX_RESPONSE_BYTES
      THEN /\ IsPrefix(resp.rows, fetched)
           /\ \/ SerializedSize(resp.rows) <= MAX_RESPONSE_BYTES
              \/ Len(resp.rows) = 1
              \/ fetched = << >>
           /\ resp.truncated = { TRUE }
           /\ resp.rowCount = Len(resp.rows)
      ELSE /\ resp.rows = fetched
           /\ resp.truncated = {}

\* C23 witness: ten rows over the budget were cut to seven and then to the
\* four that were sent.
C23_Witness ==
  \E resp \in sent :
    /\ Len(fetched) = 10
    /\ SerializedSize(slice(fetched, 7)) > MAX_RESPONSE_BYTES
    /\ Len(resp.rows) = 4
    /\ resp.truncated = { TRUE }

\* C24: whatever the rows and the budget, the loop ends and the response is
\* sent.
C24_ResponseIsSent == <>(sPc = "sent")

(***************************************************************************)
(* Properties of the pool registry                                         *)
(***************************************************************************)

\* The keys of a registry.
KeysOf(map) == { map[i].key : i \in DOMAIN map }

\* The number of the last call in log that was made with k, 0 if none was.
LastUse(log, k) ==
  IF \E i \in DOMAIN log : log[i] = k
    THEN CHOOSE i \in DOMAIN log : log[i] = k /\ \A j \in DOMAIN log : log[j] = k => j <= i
    ELSE 0

\* The calls before the last one.
EarlierCalls == SubSeq(poolLog, 1, Len(poolLog) - 1)

\* The key of the last call.
LastKey == poolLog[Len(poolLog)]

\* The keys of the registry before the last call that were inserted or
\* returned least recently.
LeastRecent ==
  { k \in KeysOf(prevCache) :
      \A q \in KeysOf(prevCache) : LastUse(EarlierCalls, k) <= LastUse(EarlierCalls, q) }

\* C19: after every getPool call the registry holds at most CACHE_POOL_SIZE
\* entries.
C19_RegistryBounded == Len(poolCache) <= CACHE_POOL_SIZE

\* C19 witness: getPool was called with a key the full registry did not hold.
C19_Witness ==
  /\ poolLog # << >>
  /\ Len(prevCache) = CACHE_POOL_SIZE
  /\ LastKey \notin KeysOf(prevCache)
  /\ LastKey \in KeysOf(poolCache)

\* C20: getPool with a key the registry holds returns the pool of that key,
\* creates none, keeps every entry and makes the key the most recently used
\* one; getPool with a key the full registry does not hold returns a new
\* pool and removes the key inserted or returned least recently and no other.
C20_HitReturnsMissEvictsLru ==
  poolLog # << >> =>
    IF LastKey \in KeysOf(prevCache)
      THEN /\ { returned } = MapGet(prevCache, LastKey)
           /\ \A k \in KeysOf(prevCache) : MapGet(poolCache, k) = MapGet(prevCache, k)
           /\ KeysOf(poolCache) = KeysOf(prevCache)
           /\ poolCache[Len(poolCache)].key = LastKey
      ELSE Len(prevCache) = CACHE_POOL_SIZE =>
             /\ \A i \in DOMAIN prevCache : prevCache[i].value # returned
             /\ MapGet(poolCache, LastKey) = { returned }
             /\ \E lru \in LeastRecent :
                  /\ KeysOf(poolCache) = (KeysOf(prevCache) \ { lru }) \cup { LastKey }
                  /\ \A k \in KeysOf(prevCache) \ { lru } :
                       MapGet(poolCache, k) = MapGet(prevCache, k)

\* C20 witness: getPool with a new key removed from the full registry a key
\* whose pool was created after the pool of a key that stays, which had
\* been returned since.
C20_Witness ==
  /\ poolLog # << >>
  /\ Len(prevCache) = CACHE_POOL_SIZE
  /\ LastKey \notin KeysOf(prevCache)
  /\ \E gone \in KeysOf(prevCache) \ KeysOf(poolCache) :
       \E kept \in KeysOf(prevCache) \cap KeysOf(poolCache) :
         \A g \in MapGet(prevCache, gone) : \A k \in MapGet(prevCache, kept) : k < g

\* The pools the registry created and has not closed.
OpenPools == (1..pools) \ ended

\* The pools the last getPool call removed from the registry.
Evicted ==
  { prevCache[i].value : i \in DOMAIN prevCache } \ { poolCache[i].value : i \in DOMAIN poolCache }

\* C21: when getPool returns, every pool it evicted has been closed, and the
\* pools created and not yet closed are never more than CACHE_POOL_SIZE.
C21_EvictedPoolsAreClosed ==
  /\ Evicted \subseteq ended
  /\ Cardinality(OpenPools) <= CACHE_POOL_SIZE

(***************************************************************************)
(* Properties of the card cache                                            *)
(***************************************************************************)

\* The request has its cards and has gone on to pickTopK.
HasCards(r) == cPc[r] = "selected"

\* The lookup of the request found an entry not older than the TTL.
FoundFresh(r) == \E e \in found[r] : cNow[r] - e.ts <= ttlMs

\* The lookup of the request found no entry, or one older than the TTL.
FoundStaleOrNone(r) ==
  /\ cPc[r] \notin { "idle", "testConnection" }
  /\ calls[r] # << >> \/ found[r] # {}
  /\ found[r] = {} \/ \E e \in found[r] : cNow[r] - e.ts > ttlMs

\* How often the request has made the call named.
Made(r, name) == Cardinality({ i \in DOMAIN calls[r] : calls[r][i] = name })

\* The request has made one full introspection and no further call.
OneFullIntrospection(r) ==
  /\ Made(r, "listRelations") = 1
  /\ Made(r, "describeRelation") = Len(Relations)
  /\ Made(r, "listRelationships") = 1
  /\ Len(calls[r]) = Len(Relations) + 2

\* The cards are as buildCards returns them: one card for every relation, in
\* the order of the relations, each with its join hints.
Complete(cards) ==
  /\ [ i \in DOMAIN cards |-> cards[i].name ] = Relations
  /\ \A i \in DOMAIN cards : cards[i] = CardNamed(cards[i].name)

\* C15: a request whose lookup finds an entry not older than the TTL uses the
\* card sequence of that entry, makes no introspection call and leaves the
\* entry, its timestamp included, as it was.
C15_FreshEntryIsUsed ==
  \A r \in Requests :
    FoundFresh(r) =>
      /\ HasCards(r)
      /\ entry[r] = found[r]
      /\ calls[r] = << >>
      /\ entryBefore[r] = found[r]
      /\ entryAfter[r] = found[r]

\* C15 witness: a request has used an entry exactly as old as the TTL.
C15_Witness ==
  \E r \in Requests :
    /\ HasCards(r)
    /\ \E e \in found[r] : cNow[r] - e.ts = ttlMs /\ entry[r] = { e }
    /\ calls[r] = << >>

\* What C16 and its amendment share: no request uses the cards of an entry
\* older than the TTL at its lookup; a request that finds no entry or one
\* older than the TTL makes one full introspection and stores a new entry,
\* with a new card sequence, which is the one it uses.
RefreshedWhenStale(r) ==
  /\ (HasCards(r) /\ entry[r] = found[r]) => FoundFresh(r)
  /\ (HasCards(r) /\ FoundStaleOrNone(r)) =>
       /\ OneFullIntrospection(r)
       /\ entryAfter[r] = entry[r]
       /\ \E e \in entry[r] :
            /\ \A f \in found[r] \cup entryBefore[r] : e.cards # f.cards
            /\ Complete(cardSeqs[e.cards])

\* C16 as stated: no request uses the cards of an entry older than the TTL at
\* its lookup; a request that finds no entry or a stale one makes one full
\* introspection and replaces the entry with a new one before using it, and
\* the new timestamp is later than the timestamp of the entry it replaces.
C16_RefreshAdvancesReplaced ==
  \A r \in Requests :
    /\ RefreshedWhenStale(r)
    /\ (HasCards(r) /\ FoundStaleOrNone(r)) =>
         \A e \in entry[r] : \A b \in entryBefore[r] : e.ts > b.ts

\* C16 amended: as C16, but the new timestamp is the time of the request's
\* lookup, later than the timestamp of the entry the lookup found.
C16_RefreshAdvancesFound ==
  \A r \in Requests :
    /\ RefreshedWhenStale(r)
    /\ (HasCards(r) /\ FoundStaleOrNone(r)) =>
         \A e \in entry[r] : e.ts = cNow[r] /\ \A f \in found[r] : e.ts > f.ts

\* C16 witness: a request has found an entry older than the TTL and has
\* replaced it.
C16_Witness ==
  \E r \in Requests :
    /\ HasCards(r)
    /\ \E f \in found[r] : cNow[r] - f.ts > ttlMs
    /\ entryAfter[r] = entry[r]
    /\ entry[r] # found[r]

\* A call of Promise.all of the request has failed.
SubCallFailed(r) == \E c \in SubCalls : results[r][c] = "rejected"

\* C17: when a describeRelation call or the listRelationships call fails, the
\* request fails and leaves the entry of its connection string as it was,
\* and no entry ever holds a card sequence that is not complete.
C17_AllOrNothing ==
  /\ \A r \in Requests :
       SubCallFailed(r) =>
         /\ cPc[r] = "failed"
         /\ entry[r] = {}
         /\ entryAfter[r] = entryBefore[r]
  /\ \A db \in DbUrls : \A e \in cacheEntry[db] : Complete(cardSeqs[e.cards])

\* C17 witness: a describeRelation call failed after the other one and
\* listRelationships had returned, and the request failed and left an entry
\* another request had stored as it was.
C17_Witness ==
  \E r \in Requests :
    /\ cPc[r] = "failed"
    /\ results[r] = [ c \in SubCalls |->
                        IF c = << "describeRelation", "public.orders" >>
                          THEN "rejected" ELSE "fulfilled" ]
    /\ entryBefore[r] # {}
    /\ cacheEntry[cDb[r]] = entryBefore[r]

\* C18: a card sequence never changes once it is built, a changed entry holds
\* a sequence built in the same step and not one that existed, and every
\* sequence an entry or a request holds is complete.
C18_StoredCardsNeverChange ==
  [][ /\ \A id \in DOMAIN cardSeqs : cardSeqs'[id] = cardSeqs[id]
      /\ \A db \in DbUrls :
           cacheEntry'[db] # cacheEntry[db] =>
             \A e \in cacheEntry'[db] : e.cards \notin DOMAIN cardSeqs
      /\ \A db \in DbUrls : \A e \in cacheEntry'[db] : Complete(cardSeqs'[e.cards])
      /\ \A r \in Requests : \A e \in entry'[r] : Complete(cardSeqs'[e.cards])
    ]_vars

\* C18 witness: a request has selected from the cards of an entry that a
\* refresh running at the same time has replaced by a new one, and both
\* sequences are complete.
C18_Witness ==
  \E r \in Requests :
    /\ HasCards(r)
    /\ \E e \in entry[r] :
         \E c \in cacheEntry[cDb[r]] :
           /\ e.cards # c.cards
           /\ Complete(cardSeqs[e.cards])
           /\ Complete(cardSeqs[c.cards])

\* C30 as stated: the timestamp of the entry of a connection string never
\* moves backwards: no entry is replaced by one with an older timestamp.
C30_TimestampNeverMovesBack ==
  [][ \A db \in DbUrls :
        \A old \in cacheEntry[db] : \A new \in cacheEntry'[db] : new.ts >= old.ts
    ]_vars

\* C30 amended: an entry is replaced only by a request that is refreshing the
\* connection string, the new timestamp is the time of that request's lookup,
\* later by more than the TTL than the timestamp of the entry the lookup
\* found, and it is later than the timestamp of the entry it replaces when
\* that is the entry the lookup found.
C30_TimestampAdvancesPastFound ==
  [][ \A db \in DbUrls :
        cacheEntry'[db] # cacheEntry[db] =>
          \E r \in Requests :
            /\ cDb[r] = db
            /\ cPc[r] = "Promise.all"
            /\ cPc'[r] = "selected"
            /\ \A new \in cacheEntry'[db] :
                 /\ new.ts = cNow[r]
                 /\ \A f \in found[r] : new.ts - f.ts > ttlMs
                 /\ cacheEntry[db] = found[r] =>
                      \A old \in cacheEntry[db] : new.ts > old.ts
    ]_vars

\* C30 witness: a request has replaced the entry a refresh running at the
\* same time had stored by one with an older timestamp.
C30_Witness ==
  \E r \in Requests :
    /\ HasCards(r)
    /\ entryAfter[r] = entry[r]
    /\ entryBefore[r] # found[r]
    /\ \E b \in entryBefore[r] : \E e \in entry[r] : b.ts > e.ts

(***************************************************************************)
(* Properties of pickTopK                                                  *)
(***************************************************************************)

\* The relation names in ascending order.
AscendingNames ==
  << "public.accounts", "public.audit", "public.customers", "public.order_items",
     "public.orders", "public.payments", "public.zones" >>

NamePlace(n) == CHOOSE i \in DOMAIN AscendingNames : AscendingNames[i] = n

\* Card a is to come before card b: a higher score, or the same score and
\* the lower name.
ComesBefore(a, b, phrase) ==
  \/ CardScore[a][phrase] > CardScore[b][phrase]
  \/ /\ CardScore[a][phrase] = CardScore[b][phrase]
     /\ NamePlace(a.name) < NamePlace(b.name)

\* cards with the cards at positions i and j exchanged.
Swapped(cards, i, j) ==
  [ n \in DOMAIN cards |-> IF n = i THEN cards[j] ELSE IF n = j THEN cards[i] ELSE cards[n] ]

\* C13: pickTopK returns its cards by descending score and, among cards of
\* equal score, by ascending relation name, and returns the same sequence
\* when two cards of equal score change places in its argument.
C13_DeterministicOrder ==
  \A out \in pOut :
    /\ \A i, j \in DOMAIN out : i < j => ComesBefore(out[i], out[j], pPhrase)
    /\ \A i, j \in DOMAIN pCards :
         CardScore[pCards[i]][pPhrase] = CardScore[pCards[j]][pPhrase]
           => pickTopK(Swapped(pCards, i, j), pPhrase, pK) = out

\* C13 witness: pickTopK returned two cards of equal score of which the
\* second came first in the argument.
C13_Witness ==
  \E out \in pOut :
    \E i, j \in DOMAIN out :
      /\ i < j
      /\ CardScore[out[i]][pPhrase] = CardScore[out[j]][pPhrase]
      /\ \E m, n \in DOMAIN pCards : m < n /\ pCards[m] = out[j] /\ pCards[n] = out[i]

\* C14: pickTopK returns min(|cards|, max(1, k)) cards, k being 6 when it is
\* left out, every one of them a card of its argument and no two the same.
C14_ReturnsTopCount ==
  \A out \in pOut :
    LET k == IF pK = {} THEN 6 ELSE CHOOSE x \in pK : TRUE IN
      /\ Len(out) = Min(Len(pCards), IF k < 1 THEN 1 ELSE k)
      /\ \A i \in DOMAIN out : \E n \in DOMAIN pCards : out[i] = pCards[n]
      /\ \A i, j \in DOMAIN out : out[i] = out[j] => i = j

\* C14 witness: pickTopK returned one of three cards for a k below 1.
C14_Witness ==
  \E out \in pOut : pK = { -1 } /\ Len(pCards) = 3 /\ Len(out) = 1

(***************************************************************************)
(* Properties of ensureLimit and hasRandomOrder                            *)
(***************************************************************************)

EnsureLimitReturned == gFn = "ensureLimit"

HasRandomOrderReturned == gFn = "hasRandomOrder"

\* The characters of s from position a to position b are all white space.
Blank(s, a, b) == \A i \in a..b : At(s, i) \in WhiteSpace

\* t is s without the white space at its two ends.
IsTrimOf(t, s) ==
  \E i \in 1..(Len(s) + 1) :
    \E j \in (i - 1)..Len(s) :
      /\ t = SubSeq(s, i, j)
      /\ Blank(s, 1, i - 1)
      /\ Blank(s, j + 1, Len(s))
      /\ At(s, i) \notin WhiteSpace
      /\ At(s, j) \notin WhiteSpace \/ j < i

\* The decimal numerals of the values of max.
Numeral == (0 :> "0") @@ (5 :> "5") @@ (1000 :> "1000")

\* C11 as stated: ensureLimit returns a text that holds the keyword LIMIT (in
\* any letter case) unchanged, and any other text trimmed and followed by
\* " LIMIT " and the maximum.
C11_LimitKeptOrAppended ==
  EnsureLimitReturned =>
    IF ContainsWholeWord(gSql, "limit")
      THEN gOut = { gSql }
      ELSE \E t \in gOut : \E u \in { SubSeq(t, 1, Len(t) - Len(" LIMIT " \o Numeral[gMax])) } :
             IsTrimOf(u, gSql) /\ t = u \o " LIMIT " \o Numeral[gMax]

\* C11 amended: ensureLimit returns a text that holds the keyword LIMIT (in any
\* letter case) trimmed and otherwise unchanged, and any other text trimmed
\* and followed by " LIMIT " and the maximum.
C11_LimitKeptTrimmedOrAppended ==
  EnsureLimitReturned =>
    IF ContainsWholeWord(gSql, "limit")
      THEN \E t \in gOut : IsTrimOf(t, gSql)
      ELSE \E t \in gOut : \E u \in { SubSeq(t, 1, Len(t) - Len(" LIMIT " \o Numeral[gMax])) } :
             IsTrimOf(u, gSql) /\ t = u \o " LIMIT " \o Numeral[gMax]

\* C11 witness: ensureLimit returned a text that holds the keyword in upper
\* case between white space without the white space and without a second
\* LIMIT.
C11_Witness ==
  /\ EnsureLimitReturned
  /\ gSql = " LIMIT 5 \n"
  /\ gMax = 1000
  /\ gOut = { "LIMIT 5" }

\* The clause ORDER BY RANDOM() in any letter case: the three words and the
\* two parentheses in this order with nothing but white space between them,
\* and some white space after ORDER and after BY.
ContainsOrderByRandom(s) ==
  \E o \in Occurrences(s, "order") :
    \E b \in Occurrences(s, "by") :
      \E r \in Occurrences(s, "random") :
        \E p \in { i \in 1..Len(s) : At(s, i) = "(" } :
          \E q \in { i \in 1..Len(s) : At(s, i) = ")" } :
            /\ o + 5 < b /\ Blank(s, o + 5, b - 1)
            /\ b + 2 < r /\ Blank(s, b + 2, r - 1)
            /\ r + 6 <= p /\ Blank(s, r + 6, p - 1)
            /\ p < q /\ Blank(s, p + 1, q - 1)

====
